---- MODULE Spec2Model ----
(***************************************************************************)
(* cr.io: freezer -> rack -> box -> well sample inventory with an audit    *)
(* trail (sample_history).  The state is the content of the SQLite tables  *)
(* declared in model.py and sample_history.py; every action is one handler *)
(* of freezer.py, rack.py, box.py or sample.py, taken with the session     *)
(* selection (selected_freezer/rack/box/well) as its parameters.           *)
(*                                                                         *)
(* Text values are sequences of one-character strings, so that             *)
(* sanitize_input, the well regular expression and int() are computed.     *)
(*                                                                         *)
(* Storage facts the model relies on:                                      *)
(*  - db_utils.init_db opens SQLite without PRAGMA foreign_keys, so the    *)
(*    ON DELETE CASCADE clauses of model.py are not enforced; only the     *)
(*    ORM relationship cascades (cascade="all, delete-orphan") act.        *)
(*  - samples.id is an INTEGER PRIMARY KEY rowid: max(id)+1 on insert.     *)
(*  - sample.py reads and writes the attributes date_created, strain,      *)
(*    ogtr and daff; the Sample record here carries the attribute set      *)
(*    sample.py uses.                                                      *)
(***************************************************************************)
EXTENDS Integers, Sequences, FiniteSets, TLC

\* ------------------------------------------------------------------ bounds
MaxSamples == 2

MaxSampleId == 2

MaxHistory == 2

MaxCsvRows == 2

\* rows of sample_history explored where one operation writes several of them
MaxUpdateHistory == 3

\* last reading of the clock in the specification that lets time pass
MaxClock == 1

\* largest number of rows or columns the box and rack forms accept
MaxDim == 20

\* --------------------------------------------------------------- text
None == <<"None">>

\* the float NaN pandas.read_csv yields for an empty cell
NaN == <<"NaN">>

UpperSeq == <<"A","B","C","D","E","F","G","H","I","J","K","L","M",
              "N","O","P","Q","R","S","T","U","V","W","X","Y","Z">>

DigitSeq == <<"0","1","2","3","4","5","6","7","8","9">>

Upper == {UpperSeq[i] : i \in 1..26}

DigitChars == {DigitSeq[i] : i \in 1..10}

Whitespace == {" ", "\t", "\n"}

\* ord(c) - ord('A') for an uppercase letter
LetterIndex(c) == (CHOOSE i \in 1..26 : UpperSeq[i] = c) - 1

\* chr(65 + r)
RowLetter(r) == UpperSeq[r + 1]

DigitValue(c) == (CHOOSE i \in 1..10 : DigitSeq[i] = c) - 1

\* str(n) for 0 <= n <= 99
IntToStr(n) == IF n < 10 THEN <<DigitSeq[n + 1]>>
               ELSE <<DigitSeq[(n \div 10) + 1], DigitSeq[(n % 10) + 1]>>

\* str.strip()
RECURSIVE LStrip(_)
LStrip(s) == IF s # <<>> /\ Head(s) \in Whitespace THEN LStrip(Tail(s)) ELSE s

RECURSIVE RStrip(_)
RStrip(s) == IF s # <<>> /\ s[Len(s)] \in Whitespace
             THEN RStrip(SubSeq(s, 1, Len(s) - 1)) ELSE s

Strip(s) == RStrip(LStrip(s))

\* int(text): surrounding whitespace ignored, decimal digits
RECURSIVE DigitsToInt(_)
DigitsToInt(s) == IF s = <<>> THEN 0
                  ELSE 10 * DigitsToInt(SubSeq(s, 1, Len(s) - 1)) + DigitValue(s[Len(s)])

ParseInt(s) == DigitsToInt(Strip(s))

\* mutant: the column is printed from 0
CoordLabel_from_zero(r, c) == <<RowLetter(r)>> \o IntToStr(c)

\* f"{chr(65 + r)}{c + 1}"
CoordLabel(r, c) == <<RowLetter(r)>> \o IntToStr(c + 1)

AllCoords(rows, columns) ==
    {CoordLabel(r, c) : r \in 0..(rows - 1), c \in 0..(columns - 1)}

\* re.sub(r'<[^>]*>', '', s)
RECURSIVE RemoveTags(_)
RemoveTags(s) ==
    IF \A i \in 1..Len(s) : s[i] # "<" THEN s
    ELSE IF Head(s) = "<" /\ \E i \in 2..Len(s) : s[i] = ">"
         THEN LET j == CHOOSE i \in 2..Len(s) :
                           s[i] = ">" /\ \A k \in 2..(i - 1) : s[k] # ">"
              IN  RemoveTags(SubSeq(s, j + 1, Len(s)))
         ELSE <<Head(s)>> \o RemoveTags(Tail(s))

IsNotQuote(c) == c \notin {"'", "\"", ";"}

sanitize_input(s) ==
    IF s = None THEN None
    ELSE IF s = NaN THEN <<"n","a","n">>
    ELSE Strip(SelectSeq(RemoveTags(s), IsNotQuote))

\* ---------------------------------------------------------- validation
\* re.match(r'^[A-Z][0-9]{1,2}$', well): '$' also matches before a final "\n"
MatchesWellPattern(w) ==
    LET core == IF w # <<>> /\ w[Len(w)] = "\n" THEN SubSeq(w, 1, Len(w) - 1) ELSE w
    IN  \E cand \in {w, core} :
           /\ Len(cand) \in 2..3
           /\ cand[1] \in Upper
           /\ \A i \in 2..Len(cand) : cand[i] \in DigitChars

validate_well_format(well) ==
    IF well = <<>> THEN "well_empty"
    ELSE IF ~MatchesWellPattern(well) THEN "well_format"
    ELSE "ok"

\* mutant: a row one past the last row of the box is let through
validate_well_in_box_inclusive(well, box_rows, box_cols) ==
    IF well = <<>> THEN "well_empty"
    ELSE LET row_index  == LetterIndex(well[1])
             col_number == ParseInt(Tail(well))
         IN  IF row_index < 0 \/ row_index > box_rows THEN "row_outside"
             ELSE IF col_number < 1 \/ col_number > box_cols THEN "column_outside"
             ELSE "ok"

validate_well_in_box(well, box_rows, box_cols) ==
    IF well = <<>> THEN "well_empty"
    ELSE LET row_index  == LetterIndex(well[1])
             col_number == ParseInt(Tail(well))
         IN  IF row_index < 0 \/ row_index >= box_rows THEN "row_outside"
             ELSE IF col_number < 1 \/ col_number > box_cols THEN "column_outside"
             ELSE "ok"

\* row_index and col_number as validate_well_in_box extracts them from a well
parse_well(well) ==
    [row_index |-> LetterIndex(well[1]), col_number |-> ParseInt(Tail(well))]

\* the message of the ValidationError validate_well_in_box raises: the axis, the
\* offending value and the maximum it prints
NoError == [axis |-> "none"]

well_in_box_error(well, box_rows, box_cols) ==
    LET row_index  == LetterIndex(well[1])
        col_number == ParseInt(Tail(well))
    IN  IF row_index < 0 \/ row_index >= box_rows
        THEN [axis |-> "Row", value |-> <<well[1]>>, max |-> <<RowLetter(box_rows - 1)>>]
        ELSE IF col_number < 1 \/ col_number > box_cols
        THEN [axis |-> "Column", value |-> IntToStr(col_number), max |-> IntToStr(box_cols)]
        ELSE NoError

MaxNameLen == 100

\* mutant: the length of the name is not checked
validate_sample_name_any_length(sample_name) ==
    IF sample_name = <<>> THEN "name_empty" ELSE "ok"

validate_sample_name(sample_name) ==
    IF sample_name = <<>> THEN "name_empty"
    ELSE IF Len(sample_name) > MaxNameLen THEN "name_too_long"
    ELSE "ok"

CellLine == <<"C","e","l","l"," ","L","i","n","e">>

DNA == <<"D","N","A">>

RNA == <<"R","N","A">>

Protein == <<"P","r","o","t","e","i","n">>

Other == <<"O","t","h","e","r">>

allowed_types == {CellLine, DNA, RNA, Protein, Other}

validate_sample_type(sample_type) ==
    IF sample_type = <<>> THEN "type_empty"
    ELSE IF sample_type \notin allowed_types THEN "type_invalid"
    ELSE "ok"

\* first error of a list of checks, "ok" when none fails
RECURSIVE FirstError(_)
FirstError(checks) ==
    IF checks = <<>> THEN "ok"
    ELSE IF Head(checks) # "ok" THEN Head(checks)
    ELSE FirstError(Tail(checks))

\* ------------------------------------------------------------------ state
VARIABLES
    freezers,        \* table freezers: set of names (primary key name)
    racks,           \* table racks: set of rows (primary key id)
    boxes,           \* table boxes: set of rows (primary key id, rack_id, freezer_name)
    samples,         \* table samples: set of rows (primary key id)
    sample_history,  \* table sample_history in insertion order
    last,            \* what the last handler reported (st.success / st.error)
    inflight,        \* per browser session: a create request between validation and insert
    probe            \* the uploaded file, or the text typed into a form and the message shown for it

vars == <<freezers, racks, boxes, samples, sample_history, last, inflight, probe>>

NoSample == [id |-> 0]

NoBox == [id |-> <<>>]

\* session identity as auth.login_user / logout_user leave it
NoIdentity == [present |-> FALSE, user_id |-> 0, username |-> <<>>]

Amy == [present |-> TRUE, user_id |-> 1, username |-> <<"a","m","y">>]

System == <<"S","y","s","t","e","m">>

Report(op, status, sid) ==
    [op |-> op, status |-> status, sample_id |-> sid, counts |-> <<0, 0, 0>>, errors |-> {}]

\* what process_uploaded_csv shows: the list of validation errors, or the summary
\* "{len(added_samples)} added, {len(updated_samples)} updated, {len(deleted_samples)} deleted"
BulkRejected(errors) == [Report("bulk_upload", "validation_failed", 0) EXCEPT !.errors = errors]

BulkSummary(added, updated, deleted) ==
    [Report("bulk_upload", "ok", 0) EXCEPT !.counts = <<added, updated, deleted>>]

\* ------------------------------------------------------------ queries
\* session.query(Sample).filter_by(freezer=..., rack=..., box=..., well=...)
SamplesAt(freezer, rack, box, well) ==
    {s \in samples : s.freezer = freezer /\ s.rack = rack /\ s.box = box /\ s.well = well}

\* session.query(Box).filter_by(freezer_name=..., rack_id=..., id=...)
BoxesAt(freezer, rack, box) ==
    {b \in boxes : b.freezer_name = freezer /\ b.rack_id = rack /\ b.id = box}

\* relationship Box.samples: joined on the foreign key columns of Sample
BoxSamples(b, smp) ==
    {s \in smp : s.box_id = b.id /\ s.rack_id = b.rack_id /\ s.freezer_name = b.freezer_name}

\* relationship Rack.boxes: joined on boxes.rack_id = racks.id
RackBoxes(r) == {b \in boxes : b.rack_id = r.id}

\* relationship Freezer.racks: joined on racks.freezer_name = freezers.name
FreezerRacks(f) == {r \in racks : r.freezer_name = f}

\* rowid the next INSERT INTO samples receives
SetMax(S) == CHOOSE m \in S : \A x \in S : x <= m

NextSampleId(smp) == IF smp = {} THEN 1 ELSE SetMax({s.id : s \in smp}) + 1

\* ------------------------------------------------------- sample_history
\* mutant: the row is written without the sample's id
log_sample_action_anon(sample, action, field, old_value, new_value, identity) ==
    [sample_id   |-> 0,
     action      |-> action,
     field       |-> field,
     old_value   |-> old_value,
     new_value   |-> new_value,
     user_id     |-> IF identity.present THEN identity.user_id ELSE 0,
     username    |-> IF identity.present THEN identity.username ELSE System,
     freezer     |-> sample.freezer,
     rack        |-> sample.rack,
     box         |-> sample.box,
     well        |-> sample.well,
     sample_name |-> sample.sample_name]

\* mutant: every row is attributed to the sentinel
log_sample_action_unattributed(sample, action, field, old_value, new_value, identity) ==
    [log_sample_action_anon(sample, action, field, old_value, new_value, identity)
        EXCEPT !.sample_id = sample.id, !.user_id = 0, !.username = System]

log_sample_action(sample, action, field, old_value, new_value, identity) ==
    [sample_id   |-> sample.id,
     action      |-> action,
     field       |-> field,
     old_value   |-> old_value,
     new_value   |-> new_value,
     user_id     |-> IF identity.present THEN identity.user_id ELSE 0,
     username    |-> IF identity.present THEN identity.username ELSE System,
     freezer     |-> sample.freezer,
     rack        |-> sample.rack,
     box         |-> sample.box,
     well        |-> sample.well,
     sample_name |-> sample.sample_name]

log_sample_creation(sample, identity) ==
    log_sample_action(sample, "created", None, None, None, identity)

log_sample_update(sample, field, old_value, new_value, identity) ==
    log_sample_action(sample, "updated", field, old_value, new_value, identity)

log_sample_deletion(sample, identity) ==
    log_sample_action(sample, "deleted", None, None, None, identity)

\* ------------------------------------------------------ sample validation
\* mutant: the location is never looked up
validate_unique_sample_none(freezer, rack, box, well, sample_id) == "ok"

validate_unique_sample(freezer, rack, box, well, sample_id) ==
    IF \E s \in SamplesAt(freezer, rack, box, well) : s.id # sample_id
    THEN "duplicate_location" ELSE "ok"

validate_sample_form(freezer, rack, box, well, sample_name, sample_type, sample_id) ==
    IF BoxesAt(freezer, rack, box) = {} THEN "box_not_found"
    ELSE LET box_info == CHOOSE b \in BoxesAt(freezer, rack, box) : TRUE
         IN  FirstError(<<validate_well_format(well),
                          IF validate_well_format(well) = "ok"
                             THEN validate_well_in_box(well, box_info.rows, box_info.columns)
                             ELSE "ok",
                          validate_sample_name(sample_name),
                          validate_sample_type(sample_type),
                          validate_unique_sample(freezer, rack, box, well, sample_id)>>)

\* ------------------------------------------------------------- freezer.py
\* add_new_freezer: "Add Freezer" submitted with the text new_freezer
\* mutant: no lookup of an existing freezer before the insert
add_new_freezer_unchecked(new_freezer) ==
    /\ new_freezer # <<>>
    /\ freezers' = freezers \cup {Strip(new_freezer)}
    /\ last' = Report("add_freezer", "ok", 0)
    /\ UNCHANGED <<racks, boxes, samples, sample_history>>

add_new_freezer(new_freezer) ==
    /\ new_freezer # <<>>
    /\ LET name == Strip(new_freezer)
       IN  IF name \notin freezers
           THEN /\ freezers' = freezers \cup {name}
                /\ last' = Report("add_freezer", "ok", 0)
           ELSE /\ freezers' = freezers
                /\ last' = Report("add_freezer", "already_exists", 0)
    /\ UNCHANGED <<racks, boxes, samples, sample_history>>

admin_password == <<"a","d","m","i","n","1","2","3">>

\* rows the ORM deletes with a set of boxes (cascade over Box.samples)
CascadeSamples(bs) == UNION {BoxSamples(b, samples) : b \in bs}

\* rows the ORM deletes with a set of racks (cascade over Rack.boxes)
CascadeBoxes(rs) == UNION {RackBoxes(r) : r \in rs}

\* handle_freezer_deletion: "Confirm Delete" with the entered password
delete_freezer(freezer_name, password) ==
    /\ freezer_name \in freezers
    /\ IF password = admin_password
       THEN LET rs == FreezerRacks(freezer_name)
                bs == CascadeBoxes(rs)
            IN  /\ freezers' = freezers \ {freezer_name}
                /\ racks' = racks \ rs
                /\ boxes' = boxes \ bs
                /\ samples' = samples \ CascadeSamples(bs)
                /\ last' = Report("delete_freezer", "ok", 0)
       ELSE /\ UNCHANGED <<freezers, racks, boxes, samples>>
            /\ last' = Report("delete_freezer", "incorrect_password", 0)
    /\ UNCHANGED sample_history

\* ---------------------------------------------------------------- rack.py
\* add_new_rack: "Add Rack" submitted while selected_freezer is selected
add_new_rack(selected_freezer, rack_id, rows, cols) ==
    /\ selected_freezer \in freezers
    /\ rack_id # <<>>
    /\ rows \in 1..20 /\ cols \in 1..20
    /\ LET id == Strip(rack_id)
           existing == {r \in racks : r.id = id /\ r.freezer_name = selected_freezer}
       IN  IF existing # {}
           THEN /\ racks' = racks
                /\ last' = Report("add_rack", "already_exists", 0)
           ELSE IF \E r \in racks : r.id = id
           THEN \* INSERT violates PRIMARY KEY (racks.id): commit raises
                /\ racks' = racks
                /\ last' = Report("add_rack", "integrity_error", 0)
           ELSE /\ racks' = racks \cup {[id |-> id, freezer_name |-> selected_freezer,
                                         rows |-> rows, columns |-> cols]}
                /\ last' = Report("add_rack", "ok", 0)
    /\ UNCHANGED <<freezers, boxes, samples, sample_history>>

\* handle_rack_deletion: "Confirm Delete" with the entered password
delete_rack(selected_freezer, rack_id, password) ==
    /\ \E r \in racks : r.id = rack_id /\ r.freezer_name = selected_freezer
    /\ IF password = admin_password
       THEN LET rs == {r \in racks : r.id = rack_id /\ r.freezer_name = selected_freezer}
                bs == CascadeBoxes(rs)
            IN  /\ racks' = racks \ rs
                /\ boxes' = boxes \ bs
                /\ samples' = samples \ CascadeSamples(bs)
                /\ last' = Report("delete_rack", "ok", 0)
       ELSE /\ UNCHANGED <<racks, boxes, samples>>
            /\ last' = Report("delete_rack", "incorrect_password", 0)
    /\ UNCHANGED <<freezers, sample_history>>

\* ----------------------------------------------------------------- box.py
\* UPDATE samples SET box = :new_id WHERE box = :old_id AND rack = :rack AND freezer = :freezer
\* mutant: the relocation does not rewrite samples.box
RekeySamples_none(smp, new_id, old_id, rack, freezer) == smp

RekeySamples(smp, new_id, old_id, rack, freezer) ==
    {IF s.box = old_id /\ s.rack = rack /\ s.freezer = freezer
        THEN [s EXCEPT !.box = new_id] ELSE s : s \in smp}

\* mutant: boxes has no primary key
BoxKeyTaken_never(id, rack_id, freezer_name) == FALSE

\* PRIMARY KEY (id, rack_id, freezer_name) of boxes: a row with this key exists
BoxKeyTaken(id, rack_id, freezer_name) ==
    \E b \in boxes : b.id = id /\ b.rack_id = rack_id /\ b.freezer_name = freezer_name

\* save_box: "Save Box" submitted; selected_box is a row of boxes or NoBox
save_box(selected_box, selected_rack, box_name, box_user, box_rows, box_cols, box_position) ==
    /\ selected_rack \in racks
    /\ selected_box = NoBox \/ (selected_box \in boxes /\ selected_box.rack_id = selected_rack.id)
    /\ box_name # <<>> /\ box_user # <<>>
    /\ box_rows \in 1..20 /\ box_cols \in 1..20
    /\ box_position \in AllCoords(selected_rack.rows, selected_rack.columns)
    /\ IF selected_box # NoBox
       THEN LET edited == [selected_box EXCEPT !.box_name = Strip(box_name),
                                               !.assigned_user = Strip(box_user),
                                               !.rows = box_rows,
                                               !.columns = box_cols]
                moved == [edited EXCEPT !.id = box_position]
            IN  IF box_position # selected_box.id
                THEN IF BoxKeyTaken(box_position, selected_box.rack_id,
                                    selected_box.freezer_name)
                     THEN \* UPDATE violates PRIMARY KEY (boxes): rollback
                          /\ UNCHANGED <<boxes, samples>>
                          /\ last' = Report("save_box", "integrity_error", 0)
                     ELSE /\ samples' = RekeySamples(samples, box_position, selected_box.id,
                                                     selected_rack.id, selected_rack.freezer_name)
                          /\ boxes' = (boxes \ {selected_box}) \cup {moved}
                          /\ last' = Report("save_box", "ok", 0)
                ELSE /\ boxes' = (boxes \ {selected_box}) \cup {edited}
                     /\ samples' = samples
                     /\ last' = Report("save_box", "ok", 0)
       ELSE IF BoxKeyTaken(box_position, selected_rack.id, selected_rack.freezer_name)
            THEN \* INSERT violates PRIMARY KEY (boxes): commit raises
                 /\ UNCHANGED <<boxes, samples>>
                 /\ last' = Report("save_box", "integrity_error", 0)
            ELSE /\ boxes' = boxes \cup {[id |-> box_position,
                                          rack_id |-> selected_rack.id,
                                          freezer_name |-> selected_rack.freezer_name,
                                          box_name |-> Strip(box_name),
                                          assigned_user |-> Strip(box_user),
                                          rows |-> box_rows,
                                          columns |-> box_cols]}
                 /\ samples' = samples
                 /\ last' = Report("save_box", "ok", 0)
    /\ UNCHANGED <<freezers, racks, sample_history>>

\* mutant: the foreign key of sample_history is enforced, the rows of the deleted
\* samples go with them
delete_box_purging(selected_box, password) ==
    /\ selected_box \in boxes
    /\ IF password = admin_password
       THEN /\ boxes' = boxes \ {selected_box}
            /\ samples' = samples \ CascadeSamples({selected_box})
            /\ sample_history' =
                  SelectSeq(sample_history,
                            LAMBDA e : e.sample_id \notin
                                          {s.id : s \in CascadeSamples({selected_box})})
            /\ last' = Report("delete_box", "ok", 0)
       ELSE /\ UNCHANGED <<boxes, samples, sample_history>>
            /\ last' = Report("delete_box", "incorrect_password", 0)
    /\ UNCHANGED <<freezers, racks>>

\* handle_box_deletion: "Confirm Delete" with the entered password
delete_box(selected_box, password) ==
    /\ selected_box \in boxes
    /\ IF password = admin_password
       THEN /\ boxes' = boxes \ {selected_box}
            /\ samples' = samples \ CascadeSamples({selected_box})
            /\ last' = Report("delete_box", "ok", 0)
       ELSE /\ UNCHANGED <<boxes, samples>>
            /\ last' = Report("delete_box", "incorrect_password", 0)
    /\ UNCHANGED <<freezers, racks, sample_history>>

\* -------------------------------------------------------------- sample.py
FieldOrder == <<"sample_name", "sample_type", "well", "owner", "notes", "species",
                "resistance", "date_created", "strain", "ogtr", "daff">>

\* the form values after sanitize_input (sample_type comes from the selectbox)
SanitizedForm(form) ==
    [f \in DOMAIN form |-> IF f = "sample_type" THEN form[f] ELSE sanitize_input(form[f])]

\* mutant: only the first field that differs is recorded
Changes_first_only(sample, form) ==
    LET changed == SelectSeq(FieldOrder, LAMBDA f : sample[f] # form[f])
    IN  [i \in 1..(IF changed = <<>> THEN 0 ELSE 1) |->
            <<changed[i], sample[changed[i]], form[changed[i]]>>]

\* changes: (field, old, new) for every field whose stored value differs
Changes(sample, form) ==
    LET changed == SelectSeq(FieldOrder, LAMBDA f : sample[f] # form[f])
    IN  [i \in 1..Len(changed) |-> <<changed[i], sample[changed[i]], form[changed[i]]>>]

\* datetime.utcnow(), the column default of samples.date_added: the reading of the
\* clock where the specification keeps one in probe.now, 0 where time does not pass
utcnow == IF "now" \in DOMAIN probe THEN probe.now ELSE 0

\* mutant: date_added is declared with onupdate=datetime.utcnow
ApplyForm_restamping(sample, form) ==
    [f \in DOMAIN sample |-> IF f = "date_added" THEN utcnow
                             ELSE IF f \in DOMAIN form THEN form[f] ELSE sample[f]]

ApplyForm(sample, form) ==
    [f \in DOMAIN sample |-> IF f \in DOMAIN form THEN form[f] ELSE sample[f]]

NewSample(id, selected_box, form) ==
    [id           |-> id,
     sample_name  |-> form.sample_name,
     sample_type  |-> form.sample_type,
     freezer      |-> selected_box.freezer_name,
     rack         |-> selected_box.rack_id,
     box          |-> selected_box.id,
     well         |-> form.well,
     owner        |-> form.owner,
     date_added   |-> utcnow,
     notes        |-> form.notes,
     species      |-> form.species,
     resistance   |-> form.resistance,
     date_created |-> form.date_created,
     strain       |-> form.strain,
     ogtr         |-> form.ogtr,
     daff         |-> form.daff,
     box_id       |-> selected_box.id,
     rack_id      |-> selected_box.rack_id,
     freezer_name |-> selected_box.freezer_name]

\* the sample display_sample_form finds at the selected well (.first()), or NoSample
FormSamples(selected_box, selected_well) ==
    LET found == SamplesAt(selected_box.freezer_name, selected_box.rack_id,
                           selected_box.id, selected_well)
    IN  IF found = {} THEN {NoSample} ELSE found

\* rows of entries that reach sample_history when insert number audit_fail raises
\* (audit_fail = 0: none raises)
Written(entries, audit_fail) ==
    IF audit_fail = 0 THEN entries ELSE SubSeq(entries, 1, audit_fail - 1)

\* save_sample, the branch "Create new sample": session.add, commit, log_sample_creation
insert_sample(selected_box, form, identity, commit_ok, audit_fail) ==
    LET new_sample == NewSample(NextSampleId(samples), selected_box, form)
    IN  /\ Cardinality(samples) < MaxSamples
        /\ new_sample.id <= MaxSampleId
        /\ IF ~commit_ok
           THEN /\ audit_fail = 0
                /\ UNCHANGED <<samples, sample_history>>
                /\ last' = Report("create_sample", "error", 0)
           ELSE /\ audit_fail \in 0..1
                /\ samples' = samples \cup {new_sample}
                /\ sample_history' = sample_history \o
                      Written(<<log_sample_creation(new_sample, identity)>>, audit_fail)
                /\ last' = IF audit_fail = 0
                           THEN Report("create_sample", "ok", new_sample.id)
                           ELSE Report("create_sample", "error", 0)

\* save_sample: "Save Sample" submitted.  commit_ok: session.commit() succeeds;
\* audit_fail: which sample_history insert raises (0: none).
save_sample(selected_box, selected_well, sample, raw_form, identity, commit_ok, audit_fail) ==
    /\ selected_box \in boxes
    /\ selected_well \in AllCoords(selected_box.rows, selected_box.columns)
    /\ sample \in FormSamples(selected_box, selected_well)
    /\ LET form == SanitizedForm(raw_form)
           verdict == validate_sample_form(selected_box.freezer_name, selected_box.rack_id,
                                           selected_box.id, form.well, form.sample_name,
                                           form.sample_type, sample.id)
       IN  IF verdict # "ok"
           THEN /\ audit_fail = 0 /\ commit_ok
                /\ UNCHANGED <<samples, sample_history>>
                /\ last' = Report("save_sample", verdict, 0)
           ELSE IF sample # NoSample
           THEN LET changes == Changes(sample, form)
                    updated == ApplyForm(sample, form)
                    entries == [i \in 1..Len(changes) |->
                                  log_sample_update(updated, changes[i][1], changes[i][2],
                                                    changes[i][3], identity)]
                IN  IF ~commit_ok
                    THEN /\ audit_fail = 0
                         /\ UNCHANGED <<samples, sample_history>>
                         /\ last' = Report("update_sample", "error", 0)
                    ELSE /\ audit_fail \in 0..Len(changes)
                         /\ samples' = (samples \ {sample}) \cup {updated}
                         /\ sample_history' = sample_history \o Written(entries, audit_fail)
                         /\ last' = IF audit_fail = 0
                                    THEN Report("update_sample", "ok", sample.id)
                                    ELSE Report("update_sample", "error", 0)
           ELSE insert_sample(selected_box, form, identity, commit_ok, audit_fail)
    /\ UNCHANGED <<freezers, racks, boxes>>

\* handle_sample_deletion: "Yes, Delete" for the sample at the selected well
handle_sample_deletion(selected_box, selected_well, sample_to_delete, identity, commit_ok, audit_fail) ==
    /\ selected_box \in boxes
    /\ selected_well \in AllCoords(selected_box.rows, selected_box.columns)
    /\ sample_to_delete \in SamplesAt(selected_box.freezer_name, selected_box.rack_id,
                                      selected_box.id, selected_well)
    /\ audit_fail \in 0..1
    /\ IF audit_fail = 1
       THEN \* log_sample_deletion raises before anything is deleted
            /\ commit_ok
            /\ UNCHANGED <<samples, sample_history>>
            /\ last' = Report("delete_sample", "error", 0)
       ELSE /\ sample_history' = Append(sample_history,
                                        log_sample_deletion(sample_to_delete, identity))
            /\ IF commit_ok
               THEN /\ samples' = samples \ {sample_to_delete}
                    /\ last' = Report("delete_sample", "ok", sample_to_delete.id)
               ELSE /\ samples' = samples
                    /\ last' = Report("delete_sample", "error", 0)
    /\ UNCHANGED <<freezers, racks, boxes>>

\* ------------------------------------------------- sample.py: bulk upload
required_columns == {"freezer", "rack", "box", "well", "sample_name", "sample_type"}

BulkColumns == <<"sample_name", "sample_type", "owner", "notes", "species", "resistance",
                 "date_created", "strain", "ogtr", "daff">>

AllColumns == {"freezer", "rack", "box", "well"} \cup {BulkColumns[i] : i \in 1..Len(BulkColumns)}

\* pd.isna(row["sample_name"]) or str(row["sample_name"]).strip() == ""
BlankName(row) == row.sample_name = NaN \/ Strip(row.sample_name) = <<>>

\* the checks validate_csv_upload runs on one row with a name; "raise" stands for
\* the TypeError re.match raises on a NaN well
RowVerdict(row, box_rows, box_cols) ==
    IF row.well = NaN THEN "raise"
    ELSE FirstError(<<validate_well_format(row.well),
                      IF validate_well_format(row.well) = "ok"
                         THEN validate_well_in_box(row.well, box_rows, box_cols) ELSE "ok">>) 

RowErrors(row, box_rows, box_cols) ==
    LET first == RowVerdict(row, box_rows, box_cols)
    IN  IF first # "ok" THEN first
        ELSE FirstError(<<validate_sample_name(row.sample_name),
                          IF row.sample_type = NaN THEN "type_invalid"
                          ELSE validate_sample_type(row.sample_type)>>)

\* df["well"].value_counts() > 1 (NaN wells are not counted)
DuplicateWells(rows) ==
    {rows[i].well : i \in {k \in 1..Len(rows) :
         rows[k].well # NaN /\ \E j \in 1..Len(rows) : j # k /\ rows[j].well = rows[k].well}}

\* validate_csv_upload: the list of errors (as a set of <<row, error>>), or "raise"
validate_csv_upload(df, freezer, rack, box) ==
    IF BoxesAt(freezer, rack, box) = {} THEN {<<0, "box_not_found">>}
    ELSE IF ~(required_columns \subseteq df.columns) THEN {<<0, "missing_columns">>}
    ELSE LET box_info == CHOOSE b \in BoxesAt(freezer, rack, box) : TRUE
             named == {i \in 1..Len(df.rows) : ~BlankName(df.rows[i])}
             row_errors == {<<i, RowErrors(df.rows[i], box_info.rows, box_info.columns)>> :
                              i \in named}
         IN  {e \in row_errors : e[2] # "ok"}
             \cup (IF DuplicateWells(df.rows) # {} THEN {<<0, "duplicate_wells">>} ELSE {})

\* the row after the sanitize loop (only columns present in the file)
SanitizedRow(row, columns) ==
    [c \in DOMAIN row |->
        IF c \in {BulkColumns[i] : i \in 1..Len(BulkColumns)} /\ c \in columns
        THEN sanitize_input(row[c]) ELSE row[c]]

BulkChanges(existing, row) ==
    LET changed == SelectSeq(BulkColumns, LAMBDA c : existing[c] # row[c])
    IN  [i \in 1..Len(changed) |-> <<existing.id, changed[i], existing[changed[i]], row[changed[i]]>>]

BulkNewSample(id, row) ==
    [id           |-> id,
     sample_name  |-> row.sample_name,
     sample_type  |-> row.sample_type,
     freezer      |-> row.freezer,
     rack         |-> row.rack,
     box          |-> row.box,
     well         |-> row.well,
     owner        |-> row.owner,
     date_added   |-> utcnow,
     notes        |-> row.notes,
     species      |-> row.species,
     resistance   |-> row.resistance,
     date_created |-> row.date_created,
     strain       |-> row.strain,
     ogtr         |-> row.ogtr,
     daff         |-> row.daff,
     box_id       |-> row.box,
     rack_id      |-> row.rack,
     freezer_name |-> row.freezer]

\* mutant: the loop does not skip the rows that name another box
ProcessRow_every_row(acc, raw, columns, freezer, rack, box) ==
    IF acc.raised THEN acc
    ELSE LET found == {s \in acc.smp : s.freezer = raw.freezer /\ s.rack = raw.rack
                                        /\ s.box = raw.box /\ s.well = raw.well}
             existing == IF found = {} THEN NoSample
                         ELSE CHOOSE s \in found : \A t \in found : s.id <= t.id
             row == SanitizedRow(raw, columns)
         IN  IF BlankName(raw)
             THEN IF existing # NoSample
                  THEN [acc EXCEPT !.smp = acc.smp \ {existing},
                                   !.deleted = Append(acc.deleted, existing)]
                  ELSE acc
             ELSE IF ~(AllColumns \subseteq columns)
             THEN [acc EXCEPT !.raised = TRUE]
             ELSE IF existing # NoSample
             THEN LET changes == BulkChanges(existing, row)
                      updated == [f \in DOMAIN existing |->
                                     IF f \in {BulkColumns[i] : i \in 1..Len(BulkColumns)}
                                     THEN row[f] ELSE existing[f]]
                  IN  [acc EXCEPT !.smp = (acc.smp \ {existing}) \cup {updated},
                                  !.updated = acc.updated \o changes]
             ELSE LET new_s == BulkNewSample(NextSampleId(acc.smp), row)
                  IN  [acc EXCEPT !.smp = acc.smp \cup {new_s},
                                  !.added = Append(acc.added, new_s.id)]

\* one iteration of "for _, row in df_upload.iterrows()"; .first() returns the row
\* with the lowest rowid among the samples at the row's well.  acc.raised: a KeyError on a column
\* the file does not have ended the loop.
ProcessRow(acc, raw, columns, freezer, rack, box) ==
    IF acc.raised \/ raw.freezer # freezer \/ raw.rack # rack \/ raw.box # box THEN acc
    ELSE LET found == {s \in acc.smp : s.freezer = raw.freezer /\ s.rack = raw.rack
                                        /\ s.box = raw.box /\ s.well = raw.well}
             existing == IF found = {} THEN NoSample
                         ELSE CHOOSE s \in found : \A t \in found : s.id <= t.id
             row == SanitizedRow(raw, columns)
         IN  IF BlankName(raw)
             THEN IF existing # NoSample
                  THEN [acc EXCEPT !.smp = acc.smp \ {existing},
                                   !.deleted = Append(acc.deleted, existing)]
                  ELSE acc
             ELSE IF ~(AllColumns \subseteq columns)
             THEN [acc EXCEPT !.raised = TRUE]
             ELSE IF existing # NoSample
             THEN LET changes == BulkChanges(existing, row)
                      updated == [f \in DOMAIN existing |->
                                     IF f \in {BulkColumns[i] : i \in 1..Len(BulkColumns)}
                                     THEN row[f] ELSE existing[f]]
                  IN  [acc EXCEPT !.smp = (acc.smp \ {existing}) \cup {updated},
                                  !.updated = acc.updated \o changes]
             ELSE LET new_s == BulkNewSample(NextSampleId(acc.smp), row)
                  IN  [acc EXCEPT !.smp = acc.smp \cup {new_s},
                                  !.added = Append(acc.added, new_s.id)]

RECURSIVE ProcessRows(_, _, _, _, _, _)
ProcessRows(acc, rows, columns, freezer, rack, box) ==
    IF rows = <<>> THEN acc
    ELSE ProcessRows(ProcessRow(acc, Head(rows), columns, freezer, rack, box),
                     Tail(rows), columns, freezer, rack, box)

SampleById(smp, id) == CHOOSE s \in smp : s.id = id

\* mutant: the deleted samples are not logged
log_bulk_sample_changes_no_deleted(acc, identity) ==
    [i \in 1..Len(acc.added) |->
        log_sample_creation(SampleById(acc.smp, acc.added[i]), identity)]
    \o [i \in 1..Len(acc.updated) |->
        log_sample_update(SampleById(acc.smp, acc.updated[i][1]), acc.updated[i][2],
                          acc.updated[i][3], acc.updated[i][4], identity)]

\* log_bulk_sample_changes: added, then updated, then deleted
log_bulk_sample_changes(acc, identity) ==
    [i \in 1..Len(acc.added) |->
        log_sample_creation(SampleById(acc.smp, acc.added[i]), identity)]
    \o [i \in 1..Len(acc.updated) |->
        log_sample_update(SampleById(acc.smp, acc.updated[i][1]), acc.updated[i][2],
                          acc.updated[i][3], acc.updated[i][4], identity)]
    \o [i \in 1..Len(acc.deleted) |-> log_sample_deletion(acc.deleted[i], identity)]

\* process_uploaded_csv for the selected box.  commit_ok: session.commit() succeeds;
\* audit_fail: which sample_history insert raises (0: none).
process_uploaded_csv(df, selected_box, identity, commit_ok, audit_fail) ==
    /\ selected_box \in boxes
    /\ LET freezer == selected_box.freezer_name
           rack == selected_box.rack_id
           box == selected_box.id
           errors == validate_csv_upload(df, freezer, rack, box)
           acc == ProcessRows([smp |-> samples, added |-> <<>>, updated |-> <<>>,
                               deleted |-> <<>>, raised |-> FALSE],
                              df.rows, df.columns, freezer, rack, box)
           entries == log_bulk_sample_changes(acc, identity)
       IN  IF errors # {}
           THEN /\ audit_fail = 0 /\ commit_ok
                /\ UNCHANGED <<samples, sample_history>>
                /\ last' = IF \E e \in errors : e[2] = "raise"
                           THEN Report("bulk_upload", "error", 0)
                           ELSE BulkRejected(errors)
           ELSE /\ Cardinality(acc.smp) <= MaxSamples
                /\ \A s \in acc.smp : s.id <= MaxSampleId
                /\ IF acc.raised
                   THEN \* the except clause reports; the enclosing session commits
                        /\ audit_fail = 0
                        /\ samples' = IF commit_ok THEN acc.smp ELSE samples
                        /\ UNCHANGED sample_history
                        /\ last' = Report("bulk_upload", "error", 0)
                   ELSE IF ~commit_ok
                   THEN /\ audit_fail = 0
                        /\ UNCHANGED <<samples, sample_history>>
                        /\ last' = Report("bulk_upload", "error", 0)
                   ELSE /\ audit_fail \in 0..Len(entries)
                        /\ samples' = acc.smp
                        /\ sample_history' = sample_history \o Written(entries, audit_fail)
                        /\ last' = IF audit_fail = 0
                                   THEN BulkSummary(Len(acc.added), Len(acc.updated),
                                                    Len(acc.deleted))
                                   ELSE Report("bulk_upload", "error", 0)
    /\ UNCHANGED <<freezers, racks, boxes>>

\* ------------------------------------------------------------ input sets
FreezerInputs == {<<"F","1">>}

RackInputs == {<<"R","1">>}

RackDimInputs == {<<1, 2>>}

BoxDimInputs == {<<1, 2>>}

BoxNameInputs == {<<"b","x">>}

BoxUserInputs == {<<"u">>}

PasswordInputs == {admin_password}

WellInputs == {<<"A","1">>, <<"A","2">>}

NameInputs == {<<"S","1">>, <<"S","2">>}

OwnerInputs == {<<"A","l">>}

CsvNameInputs == {NaN, <<"S","1">>}

IdentityInputs == {Amy}

\* one of the OGTR checkbox labels, one of the DAFF checkbox labels
Wildtype == <<"W","i","l","d","t","y","p","e">>

StateQuarantine == <<"S","t","a","t","e"," ","Q","u","a","r","a","n","t","i","n","e">>

Text == <<"x">>

FormInputs ==
    {[sample_name |-> n, sample_type |-> CellLine, well |-> w, owner |-> o, notes |-> Text,
      species |-> Text, resistance |-> Text, date_created |-> Text, strain |-> Text,
      ogtr |-> Wildtype, daff |-> StateQuarantine] :
        n \in NameInputs, w \in WellInputs, o \in OwnerInputs}

\* rows of an uploaded file that name the box b
CsvRowInputs(b) ==
    {[freezer |-> b.freezer_name, rack |-> b.rack_id, box |-> b.id, well |-> w,
      sample_name |-> n, sample_type |-> CellLine, owner |-> o, notes |-> Text,
      species |-> Text, resistance |-> Text, date_created |-> Text, strain |-> Text,
      ogtr |-> Wildtype, daff |-> StateQuarantine] :
        n \in CsvNameInputs, w \in WellInputs, o \in OwnerInputs}

WellRank(w) == IF w = NaN THEN 0 ELSE ParseInt(Tail(w)) + 100 * LetterIndex(w[1])

\* files of 1..MaxCsvRows rows in grid order; a well is repeated only by a repeated row
DfInputs(b) ==
    {[columns |-> AllColumns, rows |-> rows] :
        rows \in {r \in UNION {[1..n -> CsvRowInputs(b)] : n \in 1..MaxCsvRows} :
                    \A i \in 1..(Len(r) - 1) :
                       \/ WellRank(r[i].well) < WellRank(r[i + 1].well)
                       \/ r[i] = r[i + 1]}}

\* ------------------------------------------------------------ specification
Idle == [box |-> NoBox]

NoProbe == [call |-> "none"]

Callers == {"c1", "c2"}

Init ==
    /\ freezers = {}
    /\ racks = {}
    /\ boxes = {}
    /\ samples = {}
    /\ sample_history = <<>>
    /\ last = Report("init", "ok", 0)
    /\ inflight = [c \in Callers |-> Idle]
    /\ probe = NoProbe

AddFreezer == /\ \E n \in FreezerInputs : add_new_freezer(n)
              /\ UNCHANGED <<inflight, probe>>

DeleteFreezer == /\ \E f \in freezers, pw \in PasswordInputs : delete_freezer(f, pw)
                 /\ UNCHANGED <<inflight, probe>>

AddRack == /\ \E f \in freezers, id \in RackInputs, d \in RackDimInputs :
                 add_new_rack(f, id, d[1], d[2])
           /\ UNCHANGED <<inflight, probe>>

DeleteRack == /\ \E r \in racks, pw \in PasswordInputs : delete_rack(r.freezer_name, r.id, pw)
              /\ UNCHANGED <<inflight, probe>>

SaveBox == /\ \E r \in racks, b \in {NoBox} \cup boxes, n \in BoxNameInputs,
                 u \in BoxUserInputs, d \in BoxDimInputs :
                 \E pos \in AllCoords(r.rows, r.columns) : save_box(b, r, n, u, d[1], d[2], pos)
           /\ UNCHANGED <<inflight, probe>>

DeleteBox == /\ \E b \in boxes, pw \in PasswordInputs : delete_box(b, pw)
             /\ UNCHANGED <<inflight, probe>>

\* which sample_history insert may raise in a fault specification
AuditFaults == 1..MaxHistory

SaveSample ==
    /\ \E b \in boxes, form \in FormInputs, who \in IdentityInputs :
          \E w \in AllCoords(b.rows, b.columns) :
             \E s \in FormSamples(b, w) :
                save_sample(b, w, s, form, who, TRUE, 0)
    /\ Len(sample_history') <= MaxHistory
    /\ UNCHANGED <<inflight, probe>>

DeleteSample ==
    /\ \E b \in boxes, who \in IdentityInputs :
          \E w \in AllCoords(b.rows, b.columns) :
             \E s \in FormSamples(b, w) : handle_sample_deletion(b, w, s, who, TRUE, 0)
    /\ Len(sample_history') <= MaxHistory
    /\ UNCHANGED <<inflight, probe>>

BulkUpload ==
    /\ \E b \in boxes, who \in IdentityInputs :
          \E df \in DfInputs(b) : process_uploaded_csv(df, b, who, TRUE, 0)
    /\ Len(sample_history') <= MaxHistory
    /\ UNCHANGED <<inflight, probe>>

\* a new box in the slot the form preselects in an empty rack
AddBox ==
    /\ \E r \in racks, n \in BoxNameInputs, u \in BoxUserInputs, d \in BoxDimInputs :
          save_box(NoBox, r, n, u, d[1], d[2], CoordLabel(0, 0))
    /\ UNCHANGED <<inflight, probe>>

\* the forms of the fault specification: one name, so that an update moves the sample
FaultFormInputs == {form \in FormInputs : form.sample_name = <<"S","1">>}

SaveSampleNoFault ==
    /\ \E b \in boxes, form \in FaultFormInputs, who \in IdentityInputs :
          \E w \in AllCoords(b.rows, b.columns) :
             \E s \in FormSamples(b, w) :
                save_sample(b, w, s, form, who, TRUE, 0)
    /\ Len(sample_history') <= MaxHistory
    /\ UNCHANGED <<inflight, probe>>

SaveSampleCommitFault ==
    /\ Len(sample_history) < MaxHistory
    /\ \E b \in boxes, form \in FaultFormInputs, who \in IdentityInputs :
          \E w \in AllCoords(b.rows, b.columns) :
             \E s \in FormSamples(b, w) :
                save_sample(b, w, s, form, who, FALSE, 0)
    /\ Len(sample_history') <= MaxHistory
    /\ UNCHANGED <<inflight, probe>>

SaveSampleAuditFault ==
    /\ Len(sample_history) < MaxHistory
    /\ \E b \in boxes, form \in FaultFormInputs, who \in IdentityInputs :
          \E w \in AllCoords(b.rows, b.columns) :
             \E s \in FormSamples(b, w), k \in AuditFaults :
                save_sample(b, w, s, form, who, TRUE, k)
    /\ Len(sample_history') <= MaxHistory
    /\ UNCHANGED <<inflight, probe>>

DeleteSampleCommitFault ==
    /\ Len(sample_history) < MaxHistory
    /\ \E b \in boxes, who \in IdentityInputs :
          \E w \in AllCoords(b.rows, b.columns) :
             \E s \in FormSamples(b, w) : handle_sample_deletion(b, w, s, who, FALSE, 0)
    /\ Len(sample_history') <= MaxHistory
    /\ UNCHANGED <<inflight, probe>>

DeleteSampleAuditFault ==
    /\ Len(sample_history) < MaxHistory
    /\ \E b \in boxes, who \in IdentityInputs :
          \E w \in AllCoords(b.rows, b.columns) :
             \E s \in FormSamples(b, w) : handle_sample_deletion(b, w, s, who, TRUE, 1)
    /\ Len(sample_history') <= MaxHistory
    /\ UNCHANGED <<inflight, probe>>

BulkUploadCommitFault ==
    /\ Len(sample_history) < MaxHistory
    /\ \E b \in boxes, who \in IdentityInputs :
          \E df \in DfInputs(b) : process_uploaded_csv(df, b, who, FALSE, 0)
    /\ Len(sample_history') <= MaxHistory
    /\ UNCHANGED <<inflight, probe>>

BulkUploadAuditFault ==
    /\ Len(sample_history) < MaxHistory
    /\ \E b \in boxes, who \in IdentityInputs :
          \E df \in DfInputs(b), k \in AuditFaults : process_uploaded_csv(df, b, who, TRUE, k)
    /\ Len(sample_history') <= MaxHistory
    /\ UNCHANGED <<inflight, probe>>

\* every handler, one at a time, the store and the history table never failing
Next ==
    \/ AddFreezer
    \/ DeleteFreezer
    \/ AddRack
    \/ DeleteRack
    \/ SaveBox
    \/ DeleteBox
    \/ SaveSample
    \/ DeleteSample
    \/ BulkUpload

Spec == Init /\ [][Next]_vars

\* the hierarchy alone: two freezers, two racks, boxes of two sizes, a form that may
\* offer a slot another session has filled since the page was drawn
HierFreezerInputs == {<<"F","1">>, <<"F","2">>}

HierRackInputs == {<<"R","1">>, <<"R","2">>}

HierBoxDimInputs == {<<1, 1>>, <<1, 2>>}

AddFreezerHier == /\ \E n \in HierFreezerInputs : add_new_freezer(n)
                  /\ UNCHANGED <<inflight, probe>>

AddRackHier == /\ \E f \in freezers, id \in HierRackInputs, d \in RackDimInputs :
                     add_new_rack(f, id, d[1], d[2])
               /\ UNCHANGED <<inflight, probe>>

SaveBoxHier == /\ \E r \in racks, b \in {NoBox} \cup boxes, n \in BoxNameInputs,
                     u \in BoxUserInputs, d \in HierBoxDimInputs :
                     \E pos \in AllCoords(r.rows, r.columns) :
                        save_box(b, r, n, u, d[1], d[2], pos)
               /\ UNCHANGED <<inflight, probe>>

NextHier ==
    \/ AddFreezerHier
    \/ DeleteFreezer
    \/ AddRackHier
    \/ DeleteRack
    \/ SaveBoxHier
    \/ DeleteBox

SpecHier == Init /\ [][NextHier]_vars

\* the sample handlers with a commit or a sample_history insert that may raise
\* (database locked, disk full), on a hierarchy that is only built up
NextFaults ==
    \/ AddFreezer
    \/ AddRack
    \/ AddBox
    \/ SaveSampleNoFault
    \/ SaveSampleCommitFault
    \/ SaveSampleAuditFault
    \/ DeleteSample
    \/ DeleteSampleCommitFault
    \/ DeleteSampleAuditFault
    \/ BulkUpload
    \/ BulkUploadCommitFault
    \/ BulkUploadAuditFault

SpecFaults == Init /\ [][NextFaults]_vars

\* save_sample run by two browser sessions, each script in a thread of its own:
\* validate_sample_form (a session and transaction of its own) is one step, the
\* insert, commit and log_sample_creation that follow are another.
BeginCreate ==
    \E c \in Callers, b \in boxes, raw_form \in FormInputs, who \in IdentityInputs :
       \E w \in AllCoords(b.rows, b.columns) :
          LET form == SanitizedForm(raw_form)
              verdict == validate_sample_form(b.freezer_name, b.rack_id, b.id, form.well,
                                              form.sample_name, form.sample_type, 0)
          IN  /\ inflight[c] = Idle
              /\ FormSamples(b, w) = {NoSample}
              /\ IF verdict = "ok"
                 THEN /\ inflight' = [inflight EXCEPT
                                         ![c] = [box |-> b, form |-> form, identity |-> who]]
                      /\ UNCHANGED last
                 ELSE /\ last' = Report("save_sample", verdict, 0)
                      /\ UNCHANGED inflight
              /\ UNCHANGED <<freezers, racks, boxes, samples, sample_history, probe>>

CommitCreate ==
    \E c \in Callers :
       /\ inflight[c] # Idle
       /\ insert_sample(inflight[c].box, inflight[c].form, inflight[c].identity, TRUE, 0)
       /\ Len(sample_history') <= MaxHistory
       /\ inflight' = [inflight EXCEPT ![c] = Idle]
       /\ UNCHANGED <<freezers, racks, boxes, probe>>

NextConc ==
    \/ AddFreezer
    \/ AddRack
    \/ AddBox
    \/ BeginCreate
    \/ CommitCreate
    \/ DeleteSample

SpecConc == Init /\ [][NextConc]_vars

\* the sample form with values the validators refuse: every refused form is a valid
\* one with a single field replaced
LongName == [i \in 1..(MaxNameLen + 1) |-> "n"]

SampleFormInputs ==
    FormInputs
    \cup {[form EXCEPT !.sample_name = n] : form \in FormInputs, n \in {<<>>, <<" ">>, LongName}}
    \cup {[form EXCEPT !.well = w] : form \in FormInputs, w \in {<<>>, <<"a","1">>, <<"A","3">>, <<"B","1">>}}
    \cup {[form EXCEPT !.sample_type = t] : form \in FormInputs, t \in {<<"V","i","r","u","s">>}}

SaveSampleAny ==
    /\ \E b \in boxes, form \in SampleFormInputs, who \in IdentityInputs :
          \E w \in AllCoords(b.rows, b.columns) :
             \E s \in FormSamples(b, w) : save_sample(b, w, s, form, who, TRUE, 0)
    /\ Len(sample_history') <= MaxHistory
    /\ UNCHANGED <<inflight, probe>>

\* one box and the single-sample handlers, the form taking any of SampleFormInputs
NextSample ==
    \/ AddFreezer
    \/ AddRack
    \/ AddBox
    \/ DeleteBox
    \/ SaveSampleAny
    \/ DeleteSample

SpecSample == Init /\ [][NextSample]_vars

\* the sample form edited in several fields at once: name (one value carrying a quote
\* that sanitize_input removes), owner and well
UpdateFormInputs ==
    {[form EXCEPT !.sample_name = n, !.owner = o] :
        form \in FormInputs, n \in NameInputs \cup {<<"S", "'", "1">>},
        o \in OwnerInputs \cup {<<"B","o">>}}

SaveSampleEdit ==
    /\ \E b \in boxes, form \in UpdateFormInputs, who \in IdentityInputs :
          \E w \in AllCoords(b.rows, b.columns) :
             \E s \in FormSamples(b, w) : save_sample(b, w, s, form, who, TRUE, 0)
    /\ Len(sample_history') <= MaxUpdateHistory
    /\ UNCHANGED <<inflight, probe>>

DeleteSampleEdit ==
    /\ \E b \in boxes, who \in IdentityInputs :
          \E w \in AllCoords(b.rows, b.columns) :
             \E s \in SamplesAt(b.freezer_name, b.rack_id, b.id, w) :
                handle_sample_deletion(b, w, s, who, TRUE, 0)
    /\ Len(sample_history') <= MaxUpdateHistory
    /\ UNCHANGED <<inflight, probe>>

\* one box whose samples are created, edited in up to three fields and deleted
NextUpdate ==
    \/ AddFreezer
    \/ AddRack
    \/ AddBox
    \/ SaveSampleEdit
    \/ DeleteSampleEdit

SpecUpdate == Init /\ [][NextUpdate]_vars

\* uploaded files for one box: (sample_name, owner) of a row is one of BulkCellInputs
BulkCellInputs ==
    {<<NaN, <<"A","l">>>>, <<<<"S","1">>, <<"A","l">>>>, <<<<"S","2">>, <<"B","o">>>>}

BulkRow(b, well, cell) ==
    [freezer |-> b.freezer_name, rack |-> b.rack_id, box |-> b.id, well |-> well,
     sample_name |-> cell[1], sample_type |-> CellLine, owner |-> cell[2], notes |-> Text,
     species |-> Text, resistance |-> Text, date_created |-> Text, strain |-> Text,
     ogtr |-> Wildtype, daff |-> StateQuarantine]

\* rows whose well is in the box
GoodRowInputs(b) == {BulkRow(b, w, c) : w \in WellInputs, c \in BulkCellInputs}

\* rows whose well is outside the box, not of the well format, or an empty cell
BadRowInputs(b) ==
    {BulkRow(b, w, <<<<"S","1">>, <<"A","l">>>>) : w \in {<<"A","3">>, <<"a","1">>, NaN}}
    \cup {BulkRow(b, <<"A","3">>, <<NaN, <<"A","l">>>>)}

\* the row the downloaded template has for a sample S1 of owner Al in the first well
FirstRow(b) == BulkRow(b, CoordLabel(0, 0), <<<<"S","1">>, <<"A","l">>>>)

BulkDfInputs(b) ==
    \* one row, good or bad
    {[columns |-> AllColumns, rows |-> <<r>>] : r \in GoodRowInputs(b) \cup BadRowInputs(b)}
    \* two good rows in grid order
    \cup {[columns |-> AllColumns, rows |-> <<r1, r2>>] :
            r1 \in {r \in GoodRowInputs(b) : r.well = CoordLabel(0, 0)},
            r2 \in {r \in GoodRowInputs(b) : r.well = CoordLabel(0, 1)}}
    \* the first well named twice
    \cup {[columns |-> AllColumns, rows |-> <<FirstRow(b), r2>>] :
            r2 \in {r \in GoodRowInputs(b) : r.well = CoordLabel(0, 0)}}
    \* a good row followed by a bad row, and two bad rows
    \cup {[columns |-> AllColumns, rows |-> <<FirstRow(b), r2>>] : r2 \in BadRowInputs(b)}
    \cup {[columns |-> AllColumns, rows |-> <<r1, r2>>] :
            r1 \in {r \in BadRowInputs(b) : r.well = <<"a","1">>},
            r2 \in {r \in BadRowInputs(b) : r.well # <<"a","1">> /\ ~BlankName(r)}}
    \* a file without the column sample_type
    \cup {[columns |-> AllColumns \ {"sample_type"}, rows |-> <<FirstRow(b)>>]}

\* the file st.file_uploader holds and the box it is applied to
Uploaded(df, b) == [call |-> "upload", df |-> df, box |-> b]

UploadFile ==
    /\ \E b \in boxes, who \in IdentityInputs :
          \E df \in BulkDfInputs(b) :
             /\ process_uploaded_csv(df, b, who, TRUE, 0)
             /\ probe' = Uploaded(df, b)
    /\ Len(sample_history') <= MaxUpdateHistory
    /\ UNCHANGED inflight

\* one box filled, edited and emptied by uploaded files only
NextBulk ==
    \/ AddFreezer
    \/ AddRack
    \/ AddBox
    \/ UploadFile

SpecBulk == Init /\ [][NextBulk]_vars

\* every text of one uppercase letter and one or two digits typed into the well field
\* of the sample form of a box of DimInputs rows and columns
DimInputs == {1, 2, 10, MaxDim}

WellTextInputs ==
    {<<l, d>> : l \in Upper, d \in DigitChars}
    \cup {<<l, d1, d2>> : l \in Upper, d1 \in DigitChars, d2 \in DigitChars}

\* a freezer with one rack and one empty box of the given size
InitBounds ==
    /\ freezers = FreezerInputs
    /\ racks = {[id |-> id, freezer_name |-> f, rows |-> 1, columns |-> 2] :
                   id \in RackInputs, f \in FreezerInputs}
    /\ \E rows \in DimInputs, columns \in DimInputs :
          boxes = {[id |-> CoordLabel(0, 0), rack_id |-> r.id, freezer_name |-> r.freezer_name,
                    box_name |-> n, assigned_user |-> u, rows |-> rows, columns |-> columns] :
                      r \in racks, n \in BoxNameInputs, u \in BoxUserInputs}
    /\ samples = {}
    /\ sample_history = <<>>
    /\ last = Report("init", "ok", 0)
    /\ inflight = [c \in Callers |-> Idle]
    /\ probe \in {[call |-> "input", well |-> w] : w \in WellTextInputs}

\* "Save Sample" for an empty well with the typed text in the well field
SaveTypedWell ==
    /\ probe.call = "input"
    /\ \E b \in boxes, base \in FaultFormInputs, who \in IdentityInputs :
          LET form == [base EXCEPT !.well = probe.well]
          IN  /\ save_sample(b, CoordLabel(0, 0), NoSample, form, who, TRUE, 0)
              /\ probe' = [call |-> "save_sample", well |-> probe.well,
                            error |-> well_in_box_error(sanitize_input(probe.well),
                                                        b.rows, b.columns)]
    /\ Len(sample_history') <= MaxHistory
    /\ UNCHANGED inflight

NextBounds == SaveTypedWell

SpecBounds == InitBounds /\ [][NextBounds]_vars

\* the cells of the largest grid: a row for every letter, MaxDim columns
InitCoord ==
    /\ freezers = {}
    /\ racks = {}
    /\ boxes = {}
    /\ samples = {}
    /\ sample_history = <<>>
    /\ last = Report("init", "ok", 0)
    /\ inflight = [c \in Callers |-> Idle]
    /\ probe \in {[call |-> "cell", row |-> row, col |-> col] :
                    row \in 0..(Len(UpperSeq) - 1), col \in 0..(MaxDim - 1)}

\* the grid prints the label of a cell; the validators read the label
LabelCell ==
    /\ probe.call = "cell"
    /\ LET well == CoordLabel(probe.row, probe.col)
       IN  probe' = [call |-> "label", row |-> probe.row, col |-> probe.col, well |-> well,
                     format |-> validate_well_format(well), parsed |-> parse_well(well)]
    /\ UNCHANGED <<freezers, racks, boxes, samples, sample_history, last, inflight>>

NextCoord == LabelCell

SpecCoord == InitCoord /\ [][NextCoord]_vars

\* boxes and their samples: one rack of two slots, boxes of two sizes that are created,
\* edited and relocated while they hold samples
NextBox ==
    \/ AddFreezer
    \/ AddRack
    \/ SaveBoxHier
    \/ SaveSample

SpecBox == Init /\ [][NextBox]_vars

\* --------------------------------------------------------- sample_history.py
\* column LIKE '%pattern%' in SQLite: the pattern occurs in the value, ASCII letters
\* compared without regard to case (patterns here hold no % or _)
Like(value, pattern) ==
    LET LowerSeq == <<"a","b","c","d","e","f","g","h","i","j","k","l","m",
                      "n","o","p","q","r","s","t","u","v","w","x","y","z">>
        Same(a, b) == \/ a = b
                      \/ \E i \in 1..26 : {a, b} = {UpperSeq[i], LowerSeq[i]}
    IN  \E k \in 0..(Len(value) - Len(pattern)) :
           \A j \in 1..Len(pattern) : Same(value[k + j], pattern[j])

\* display_filtered_history: the row lists query.all() may return for the filters;
\* ORDER BY timestamp DESC leaves the order of rows with equal timestamps open
display_filtered_history(history, filter_action, filter_user, date_range, filter_freezer, filter_rack, filter_box, filter_sample) ==
    LET hit(e) ==
            /\ filter_action # {} => e.action \in filter_action
            /\ filter_user # {} => e.username \in filter_user
            /\ Len(date_range) = 2 =>
                  (date_range[1] <= e.timestamp /\ e.timestamp <= date_range[2])
            /\ filter_freezer # <<>> => Like(e.freezer, filter_freezer)
            /\ filter_rack # <<>> => Like(e.rack, filter_rack)
            /\ filter_box # <<>> => Like(e.box, filter_box)
            /\ filter_sample # <<>> => Like(e.sample_name, filter_sample)
        found == {i \in 1..Len(history) : hit(history[i])}
        orders == {o \in [1..Cardinality(found) -> found] :
                     /\ \A i, j \in DOMAIN o : i # j => o[i] # o[j]
                     /\ \A i, j \in DOMAIN o :
                           i < j => history[o[i]].timestamp >= history[o[j]].timestamp}
    IN  {[i \in DOMAIN o |-> history[o[i]]] : o \in orders}

\* the audit query alone: a stored history and the filters of the page are drawn,
\* "Apply Filters" runs the query.  Timestamps are days; rows are stored in time order.
InitQuery ==
    /\ freezers = {} /\ racks = {} /\ boxes = {} /\ samples = {}
    /\ last = Report("init", "ok", 0)
    /\ inflight = [c \in Callers |-> Idle]
    /\ \E n \in 1..3 :
          \E pick \in [1..n -> 1..3] :
             /\ \A i \in 1..(n - 1) : pick[i] <= pick[i + 1]
             /\ sample_history =
                   [i \in 1..n |->
                      [id |-> i,
                       action |-> <<"created", "updated", "deleted">>[pick[i]],
                       username |-> <<Amy.username, Amy.username, System>>[pick[i]],
                       timestamp |-> <<1, 2, 2>>[pick[i]],
                       freezer |-> <<"F","1">>,
                       rack |-> <<"R","1">>,
                       box |-> << <<"A","1">>, <<"A","1">>, <<"A","1","0">> >>[pick[i]],
                       sample_name |-> << <<"S","1">>, <<"S","1","2">>, <<"S","2">> >>[pick[i]]]]
    /\ \E fa \in {{}, {"created"}, {"updated", "deleted"}}, fu \in {{}, {Amy.username}},
          dr \in {<<1, 1>>, <<1, 2>>, <<2>>}, ff \in {<<>>, <<"F","1">>},
          fr \in {<<>>, <<"R","1">>}, fb \in {<<>>, <<"A","1">>, <<"A","1","0">>},
          fs \in {<<>>, <<"S","1">>} :
          probe = [call |-> "filters", filter_action |-> fa, filter_user |-> fu,
                   date_range |-> dr, filter_freezer |-> ff, filter_rack |-> fr,
                   filter_box |-> fb, filter_sample |-> fs, result |-> <<>>]

ApplyFilters ==
    /\ probe.call = "filters"
    /\ \E entries \in display_filtered_history(sample_history, probe.filter_action,
                         probe.filter_user, probe.date_range, probe.filter_freezer,
                         probe.filter_rack, probe.filter_box, probe.filter_sample) :
          probe' = [probe EXCEPT !.call = "query", !.result = entries]
    /\ UNCHANGED <<freezers, racks, boxes, samples, sample_history, last, inflight>>

NextQuery == ApplyFilters

SpecQuery == InitQuery /\ [][NextQuery]_vars

\* ---------------------------------------------------------------- auth.py
\* one browser session: probe.identity is st.session_state.user_id/username, set by
\* login_user and cleared by logout_user; the sample handlers log with the identity
\* the session holds when they run.  The pages call them behind require_login; the
\* handlers themselves do not look at the session, and log_sample_action provides for
\* a session without identity, so they are taken in either session state.
InitSession ==
    /\ freezers = {} /\ racks = {} /\ boxes = {} /\ samples = {}
    /\ sample_history = <<>>
    /\ last = Report("init", "ok", 0)
    /\ inflight = [c \in Callers |-> Idle]
    /\ probe = [call |-> "session", identity |-> NoIdentity]

\* login_user: the form is shown while user_id is None; a valid, active account
Login ==
    /\ ~probe.identity.present
    /\ \E user \in {Amy, [present |-> TRUE, user_id |-> 2, username |-> <<"b","o","b">>]} :
          probe' = [probe EXCEPT !.identity = user]
    /\ UNCHANGED <<freezers, racks, boxes, samples, sample_history, last, inflight>>

\* logout_user
Logout ==
    /\ probe' = [probe EXCEPT !.identity = NoIdentity]
    /\ UNCHANGED <<freezers, racks, boxes, samples, sample_history, last, inflight>>

SaveSampleSession ==
    /\ \E b \in boxes, form \in FaultFormInputs :
          \E w \in AllCoords(b.rows, b.columns) :
             \E s \in FormSamples(b, w) :
                save_sample(b, w, s, form, probe.identity, TRUE, 0)
    /\ Len(sample_history') <= MaxHistory
    /\ UNCHANGED <<inflight, probe>>

DeleteSampleSession ==
    /\ \E b \in boxes :
          \E w \in AllCoords(b.rows, b.columns) :
             \E s \in FormSamples(b, w) :
                handle_sample_deletion(b, w, s, probe.identity, TRUE, 0)
    /\ Len(sample_history') <= MaxHistory
    /\ UNCHANGED <<inflight, probe>>

NextSession ==
    \/ AddFreezer
    \/ AddRack
    \/ AddBox
    \/ Login
    \/ Logout
    \/ SaveSampleSession
    \/ DeleteSampleSession

SpecSession == InitSession /\ [][NextSession]_vars

\* samples over time: the clock advances between the handlers, samples are created,
\* updated one at a time and by upload, and their boxes are edited and relocated
InitClock ==
    /\ freezers = {} /\ racks = {} /\ boxes = {} /\ samples = {}
    /\ sample_history = <<>>
    /\ last = Report("init", "ok", 0)
    /\ inflight = [c \in Callers |-> Idle]
    /\ probe = [call |-> "clock", now |-> 0]

Tick ==
    /\ probe.now < MaxClock
    /\ probe' = [probe EXCEPT !.now = probe.now + 1]
    /\ last' = Report("tick", "ok", 0)
    /\ UNCHANGED <<freezers, racks, boxes, samples, sample_history, inflight>>

NextClock ==
    \/ AddFreezer
    \/ AddRack
    \/ SaveBox
    \/ SaveSampleNoFault
    \/ BulkUpload
    \/ Tick

SpecClock == InitClock /\ [][NextClock]_vars

\* ---------------------------------------------------------------- common.py
\* handle_delete_confirmation over one browser session: probe holds
\* st.session_state.delete_confirmation/delete_type/delete_target and the text typed
\* into the password field of the confirmation block
NoPending == [call |-> "confirm", delete_confirmation |-> FALSE, delete_type |-> None,
              delete_target |-> None, password |-> <<>>]

InitConfirm ==
    /\ freezers = {} /\ racks = {} /\ boxes = {} /\ samples = {}
    /\ sample_history = <<>>
    /\ last = Report("init", "ok", 0)
    /\ inflight = [c \in Callers |-> Idle]
    /\ probe = NoPending

\* "Delete Freezer" / "Delete Rack" / "Delete Box" clicked for the selected item
RequestDelete ==
    /\ \E item_type \in {"freezer", "rack", "box"} :
          \E item_id \in CASE item_type = "freezer" -> freezers
                           [] item_type = "rack" -> {r.id : r \in racks}
                           [] item_type = "box" -> {b.id : b \in boxes} :
             probe' = [probe EXCEPT
                          !.delete_confirmation = TRUE,
                          !.delete_type = item_type,
                          !.delete_target = item_id,
                          !.password = IF /\ probe.delete_confirmation
                                          /\ probe.delete_type = item_type
                                          /\ probe.delete_target = item_id
                                       THEN probe.password ELSE <<>>]
    /\ last' = Report("request_delete", "ok", 0)
    /\ UNCHANGED <<freezers, racks, boxes, samples, sample_history, inflight>>

\* text typed into "Enter admin password:" of the confirmation block
EnterPassword ==
    /\ probe.delete_confirmation
    /\ \E password \in {admin_password, <<"a","d","m","i","n">>} :
          probe' = [probe EXCEPT !.password = password]
    /\ last' = Report("enter_password", "ok", 0)
    /\ UNCHANGED <<freezers, racks, boxes, samples, sample_history, inflight>>

\* mutant: the confirmation block does not compare delete_type and delete_target
\* with the item it is drawn for
ConfirmDelete_any_item ==
    /\ probe.delete_confirmation
    /\ \/ \E f \in freezers : delete_freezer(f, probe.password)
       \/ \E r \in racks : delete_rack(r.freezer_name, r.id, probe.password)
       \/ \E b \in boxes : delete_box(b, probe.password)
    /\ probe' = IF last'.status = "ok" THEN NoPending ELSE probe
    /\ UNCHANGED inflight

\* "Confirm Delete" clicked in the confirmation block of the selected item
ConfirmDelete ==
    /\ probe.delete_confirmation
    /\ \/ /\ probe.delete_type = "freezer"
          /\ \E f \in freezers : f = probe.delete_target /\ delete_freezer(f, probe.password)
       \/ /\ probe.delete_type = "rack"
          /\ \E r \in racks : /\ r.id = probe.delete_target
                              /\ delete_rack(r.freezer_name, r.id, probe.password)
       \/ /\ probe.delete_type = "box"
          /\ \E b \in boxes : b.id = probe.delete_target /\ delete_box(b, probe.password)
    /\ probe' = IF last'.status = "ok" THEN NoPending ELSE probe
    /\ UNCHANGED inflight

\* "Cancel" clicked in the confirmation block of the selected item
CancelDelete ==
    /\ probe.delete_confirmation
    /\ \/ probe.delete_type = "freezer" /\ probe.delete_target \in freezers
       \/ probe.delete_type = "rack" /\ \E r \in racks : r.id = probe.delete_target
       \/ probe.delete_type = "box" /\ \E b \in boxes : b.id = probe.delete_target
    /\ probe' = NoPending
    /\ last' = Report("cancel_delete", "ok", 0)
    /\ UNCHANGED <<freezers, racks, boxes, samples, sample_history, inflight>>

NextConfirm ==
    \/ AddFreezerHier
    \/ AddRackHier
    \/ SaveBox
    \/ RequestDelete
    \/ EnterPassword
    \/ ConfirmDelete
    \/ CancelDelete

SpecConfirm == InitConfirm /\ [][NextConfirm]_vars

\* a file whose rows name the boxes of the rack, uploaded for the selected box b: one
\* row, or a row for well A1 followed by a row for well A2
UploadForRack ==
    /\ \E b \in boxes, who \in IdentityInputs :
          LET rows == UNION {CsvRowInputs(x) : x \in RackBoxes([id |-> b.rack_id])}
              files == {<<r>> : r \in rows}
                          \cup {<<r[1], r[2]>> : r \in {p \in rows \X rows :
                                      WellRank(p[1].well) < WellRank(p[2].well)}}
          IN  \E f \in files :
                 /\ process_uploaded_csv([columns |-> AllColumns, rows |-> f], b, who, TRUE, 0)
                 /\ probe' = [call |-> "upload", box |-> b,
                              mixed |-> \E i \in 1..Len(f) : f[i].box # b.id]
    /\ Len(sample_history') <= MaxHistory
    /\ UNCHANGED inflight

\* two boxes of one rack, filled sample by sample and by files that name both boxes
NextFrame ==
    \/ AddFreezer
    \/ AddRack
    \/ SaveBox
    \/ SaveSampleNoFault
    \/ UploadForRack

SpecFrame == Init /\ [][NextFrame]_vars

\* ------------------------------------------------------------ properties
Location(s) == <<s.freezer, s.rack, s.box, s.well>>

\* C1: in every reachable state no two live samples have the same
\* (freezer, rack, box, well).
C1_UniqueLocation ==
    \A s1 \in samples, s2 \in samples : Location(s1) = Location(s2) => s1 = s2

\* C7: containment holds in every reachable state: the freezer of every rack exists,
\* the rack of every box exists, and the (freezer, rack, box) of every live sample
\* is the key of an existing box.
C7_Containment ==
    /\ \A r \in racks : r.freezer_name \in freezers
    /\ \A b \in boxes : \E r \in racks : r.id = b.rack_id /\ r.freezer_name = b.freezer_name
    /\ \A s \in samples : BoxesAt(s.freezer, s.rack, s.box) # {}

\* the sample_history rows the step appended
Appended == SubSeq(sample_history', Len(sample_history) + 1, Len(sample_history'))

SingleSampleOps == {"create_sample", "update_sample", "delete_sample"}

AuditAction(op) == CASE op = "create_sample" -> "created"
                     [] op = "update_sample" -> "updated"
                     [] op = "delete_sample" -> "deleted"

\* C2 as stated: every successful single-sample create, update or delete appends at
\* least one audit entry with that sample's id and the action of the operation,
\* an update in which no field value changed included.
C2_EverySuccessLogged ==
    [][(last'.op \in SingleSampleOps /\ last'.status = "ok")
         => \E i \in 1..Len(Appended) :
               /\ Appended[i].sample_id = last'.sample_id
               /\ Appended[i].action = AuditAction(last'.op)]_vars

ChangedFields(old, now) == {FieldOrder[i] : i \in {j \in 1..Len(FieldOrder) :
                                                     old[FieldOrder[j]] # now[FieldOrder[j]]}}

\* C2 amended: a successful create or delete appends exactly one entry, a successful
\* update one 'updated' entry per field whose value changed and none when no value
\* changed; every appended entry carries the sample's id and the action of the operation.
C2_SuccessLoggedPerChange ==
    [][(last'.op \in SingleSampleOps /\ last'.status = "ok")
         => /\ \A i \in 1..Len(Appended) :
                  /\ Appended[i].sample_id = last'.sample_id
                  /\ Appended[i].action = AuditAction(last'.op)
            /\ IF last'.op = "update_sample"
               THEN LET changed == ChangedFields(SampleById(samples, last'.sample_id),
                                                 SampleById(samples', last'.sample_id))
                    IN  /\ {Appended[i].field : i \in 1..Len(Appended)} = changed
                        /\ Len(Appended) = Cardinality(changed)
               ELSE Len(Appended) = 1]_vars

\* C2 witness: an update that changed a field has just been logged
C2_UpdateLogged ==
    /\ last.op = "update_sample" /\ last.status = "ok"
    /\ sample_history # <<>>
    /\ sample_history[Len(sample_history)].action = "updated"
    /\ sample_history[Len(sample_history)].sample_id = last.sample_id

HierarchyDeleteOps == {"delete_freezer", "delete_rack", "delete_box"}

\* C3: deleting a freezer, a rack or a box appends exactly one 'deleted' audit entry
\* for each sample the delete removed, and no other entry.
C3_CascadeLogged ==
    [][(last'.op \in HierarchyDeleteOps /\ last'.status = "ok")
         => /\ Len(Appended) = Cardinality(samples \ samples')
            /\ \A s \in samples \ samples' :
                  \E i \in 1..Len(Appended) :
                     Appended[i].sample_id = s.id /\ Appended[i].action = "deleted"]_vars

\* C5: the audit log is append-only: every step keeps the rows already written, in
\* place and unmodified, whatever happens to the sample, its box, rack or freezer.
C5_AppendOnly ==
    [][/\ Len(sample_history') >= Len(sample_history)
       /\ SubSeq(sample_history', 1, Len(sample_history)) = sample_history]_vars

\* C5 witness: the log holds rows of a sample that has been deleted
C5_HistoryOutlivesSample ==
    /\ last.op \in {"delete_sample"} \cup HierarchyDeleteOps
    /\ last.status = "ok"
    /\ \E i \in 1..Len(sample_history) :
          sample_history[i].sample_id \notin {s.id : s \in samples}

\* C6: relocating an existing box from slot s to an unoccupied slot t of the same rack
\* keeps every sample of the box: each is found at (freezer, rack, t, its well), none
\* is found under s, the set of sample ids is unchanged and no audit entry is appended.
C6_RelocationKeepsSamples ==
    [][\A b \in boxes \ boxes', t \in boxes' \ boxes :
         (/\ last'.op = "save_box" /\ last'.status = "ok"
          /\ t.id # b.id /\ t.rack_id = b.rack_id /\ t.freezer_name = b.freezer_name
          /\ BoxesAt(b.freezer_name, b.rack_id, t.id) = {})
         => /\ \A s \in samples :
                 (s.freezer = b.freezer_name /\ s.rack = b.rack_id /\ s.box = b.id)
                 => \E m \in samples' :
                       /\ m.id = s.id
                       /\ Location(m) = <<b.freezer_name, b.rack_id, t.id, s.well>>
            /\ ~ \E m \in samples' :
                    m.freezer = b.freezer_name /\ m.rack = b.rack_id /\ m.box = b.id
            /\ {m.id : m \in samples'} = {s.id : s \in samples}
            /\ sample_history' = sample_history]_vars

\* C6 witness: a box holding a sample has just been relocated
C6_RelocatedWithSample ==
    /\ last.op = "save_box" /\ last.status = "ok"
    /\ \E s \in samples : s.box # s.box_id /\ BoxesAt(s.freezer, s.rack, s.box) # {}

\* C10: creating a sample at a well that holds a live sample, or moving a sample to a
\* well held by a different live sample, fails with an error and leaves the samples
\* and the audit log unchanged: a save that succeeds never puts its sample where a
\* different sample was, and a save that is refused changes neither table.
C10_OccupiedWellRejected ==
    [][/\ (last'.op \in {"create_sample", "update_sample"} /\ last'.status = "ok")
           => LET saved == SampleById(samples', last'.sample_id)
              IN  ~ \E o \in samples : o.id # saved.id /\ Location(o) = Location(saved)
       /\ last'.op = "save_sample"
           => /\ last'.status # "ok"
              /\ UNCHANGED <<samples, sample_history>>]_vars

\* C10 witness: a save was refused because the well is taken, the store not empty
C10_DuplicateRefused ==
    /\ last.op = "save_sample" /\ last.status = "duplicate_location"
    /\ samples # {}

SampleOps == SingleSampleOps \cup {"bulk_upload"}

\* C4: a sample mutation and its audit entries are all-or-nothing: a create, update,
\* delete or bulk upload that ends in an error (the audit write or the commit of the
\* mutation raised) leaves both the samples and the audit log as they were.
C4_AllOrNothing ==
    [][(last'.op \in SampleOps /\ last'.status = "error")
         => UNCHANGED <<samples, sample_history>>]_vars

\* C8: in every reachable state at most one box occupies a given slot of a given rack.
C8_OneBoxPerSlot ==
    \A b1 \in boxes, b2 \in boxes : (b1.rack_id = b2.rack_id /\ b1.id = b2.id) => b1 = b2

\* C8 witness: a save aimed at a slot that another box holds has been refused
C8_TakenSlotRefused ==
    /\ last.op = "save_box" /\ last.status = "integrity_error"
    /\ Cardinality(boxes) >= 2

\* C9: when two callers create a sample at the same empty well with their validate and
\* insert steps interleaved, at most one creation succeeds: the insert of a caller whose
\* well has been filled since it validated fails with an error and adds no sample.
C9_OneCreateWins ==
    [][\A c \in Callers :
         (/\ inflight[c] # Idle
          /\ inflight'[c] = Idle
          /\ SamplesAt(inflight[c].box.freezer_name, inflight[c].box.rack_id,
                       inflight[c].box.id, inflight[c].form.well) # {})
         => /\ samples' = samples
            /\ last'.status # "ok"]_vars

\* what the sample form must satisfy, in the words of the validation rules: the values
\* are the submitted ones after sanitising, sample_id the sample being edited (0: none)
WellWellFormed(well) ==
    /\ Len(well) \in 2..3
    /\ well[1] \in Upper
    /\ \A i \in 2..Len(well) : well[i] \in DigitChars

WellInBounds(well, rows, columns) ==
    /\ LetterIndex(well[1]) < rows
    /\ DigitsToInt(Tail(well)) \in 1..columns

FailsValidation(b, form, sample_id) ==
    \/ ~WellWellFormed(form.well)
    \/ ~WellInBounds(form.well, b.rows, b.columns)
    \/ \E o \in samples : /\ o.id # sample_id
                          /\ Location(o) = <<b.freezer_name, b.rack_id, b.id, form.well>>
    \/ form.sample_name = <<>>
    \/ Len(form.sample_name) > 100
    \/ form.sample_type \notin {CellLine, DNA, RNA, Protein, Other}

\* C11: an update of a sample that fails any validation (well format, well bounds, well
\* uniqueness, name empty or longer than 100 characters, type outside the allowed set)
\* changes no field of the sample and appends no audit entry.
C11_FailedUpdateChangesNothing ==
    [][\A b \in boxes, form \in SampleFormInputs, who \in IdentityInputs :
         \A w \in AllCoords(b.rows, b.columns) :
            \A s \in SamplesAt(b.freezer_name, b.rack_id, b.id, w) :
               (/\ save_sample(b, w, s, form, who, TRUE, 0)
                /\ FailsValidation(b, SanitizedForm(form), s.id))
               => /\ UNCHANGED <<samples, sample_history>>
                  /\ last'.op = "save_sample" /\ last'.status # "ok"]_vars

\* C11 witness: every well of the only box holds a sample and a save, hence an update,
\* has just been refused for its name
C11_UpdateRefused ==
    /\ last.op = "save_sample" /\ last.status = "name_too_long"
    /\ boxes # {}
    /\ \A b \in boxes : \A w \in AllCoords(b.rows, b.columns) :
          SamplesAt(b.freezer_name, b.rack_id, b.id, w) # {}

\* C12: a successful update appends exactly one 'updated' entry for each field whose
\* new value differs from the stored one, carrying the field name, the old value and
\* the new value, and appends no entry for an unchanged field.
C12_OneEntryPerChangedField ==
    [][\A b \in boxes, raw \in UpdateFormInputs, who \in IdentityInputs :
         \A w \in AllCoords(b.rows, b.columns) :
            \A s \in SamplesAt(b.freezer_name, b.rack_id, b.id, w) :
               (/\ save_sample(b, w, s, raw, who, TRUE, 0)
                /\ last' = Report("update_sample", "ok", s.id))
               => LET form == SanitizedForm(raw)
                      new == Appended
                      about(f) == {i \in DOMAIN new : new[i].field = f}
                  IN  /\ \A i \in DOMAIN new : /\ new[i].action = "updated"
                                               /\ new[i].sample_id = s.id
                                               /\ new[i].field \in DOMAIN form
                      /\ \A f \in DOMAIN form :
                            IF s[f] = form[f]
                            THEN about(f) = {}
                            ELSE /\ Cardinality(about(f)) = 1
                                 /\ \A i \in about(f) : /\ new[i].old_value = s[f]
                                                        /\ new[i].new_value = form[f]]_vars

\* C12 witness: an update has just changed two fields of a sample and the last two
\* entries of the history are its two 'updated' entries
C12_TwoFieldsUpdated ==
    /\ last.op = "update_sample" /\ last.status = "ok"
    /\ Len(sample_history) >= 3
    /\ LET n == Len(sample_history)
       IN  /\ sample_history[n].action = "updated"
           /\ sample_history[n - 1].action = "updated"
           /\ sample_history[n].sample_id = last.sample_id
           /\ sample_history[n - 1].sample_id = last.sample_id
           /\ sample_history[n].field # sample_history[n - 1].field

\* the loop of process_uploaded_csv run on the samples smp
Reconciled(smp, df, b) ==
    ProcessRows([smp |-> smp, added |-> <<>>, updated |-> <<>>, deleted |-> <<>>,
                 raised |-> FALSE],
                df.rows, df.columns, b.freezer_name, b.rack_id, b.id)

\* C13: bulk reconciliation is idempotent: a valid snapshot applied to a box a second
\* time, directly after it was applied once, changes no sample, appends no audit entry
\* and reports added 0, updated 0, deleted 0.
C13_SecondUploadChangesNothing ==
    \A b \in boxes : \A df \in DfInputs(b) :
       LET once == Reconciled(samples, df, b)
           twice == Reconciled(once.smp, df, b)
       IN  (validate_csv_upload(df, b.freezer_name, b.rack_id, b.id) = {} /\ ~once.raised)
           => /\ twice.smp = once.smp
              /\ log_bulk_sample_changes(twice, Amy) = <<>>
              /\ <<Len(twice.added), Len(twice.updated), Len(twice.deleted)>> = <<0, 0, 0>>

\* rows of the file df whose well is not of the well format or outside the box b
BadWellRows(df, b) ==
    {i \in 1..Len(df.rows) :
        \/ ~WellWellFormed(df.rows[i].well)
        \/ ~WellInBounds(df.rows[i].well, b.rows, b.columns)}

RepeatedWells(df) ==
    {df.rows[i].well : i \in {k \in 1..Len(df.rows) :
                                \E j \in 1..Len(df.rows) : j # k /\ df.rows[j].well = df.rows[k].well}}

FailsStructuralValidation(df, b) ==
    \/ ~({"freezer", "rack", "box", "well", "sample_name", "sample_type"} \subseteq df.columns)
    \/ BadWellRows(df, b) # {}
    \/ RepeatedWells(df) # {}

\* C14: a bulk input that fails structural validation (a required column missing, a
\* row's well syntactically invalid or out of the box's bounds, a well occurring twice)
\* is rejected whole: no sample is created, updated or deleted, no audit entry is
\* appended, and the validation errors found are returned together.
C14_InvalidFileRejectedWhole ==
    [][(/\ last'.op = "bulk_upload" /\ probe'.call = "upload"
        /\ FailsStructuralValidation(probe'.df, probe'.box))
       => /\ UNCHANGED <<samples, sample_history>>
          /\ last'.status = "validation_failed"
          /\ LET df == probe'.df
             IN  \/ <<0, "missing_columns">> \in last'.errors
                 \/ /\ \A i \in BadWellRows(df, probe'.box) : \E e \in last'.errors : e[1] = i
                    /\ RepeatedWells(df) # {} => <<0, "duplicate_wells">> \in last'.errors]_vars

\* the live samples of box b among smp, and those at one of its wells
InBox(smp, b) ==
    {s \in smp : s.freezer = b.freezer_name /\ s.rack = b.rack_id /\ s.box = b.id}

AtWell(smp, b, well) == {s \in InBox(smp, b) : s.well = well}

\* what a row of a snapshot says about its well: the values of the ten data columns
RowValues(row) == [c \in {BulkColumns[i] : i \in 1..Len(BulkColumns)} |-> row[c]]

\* each row of the file df is handled as the claim C15 lists
RowsHandled(df, b) ==
    \A i \in 1..Len(df.rows) :
       LET row == SanitizedRow(df.rows[i], df.columns)
           before == AtWell(samples, b, row.well)
           after == AtWell(samples', b, row.well)
       IN  IF BlankName(df.rows[i])
           THEN after = {}
           ELSE /\ Cardinality(after) = 1
                /\ \A s \in after : /\ RowValues(s) = RowValues(row)
                                    /\ before # {} => s.id \in {o.id : o \in before}
                /\ (\E o \in before : RowValues(o) = RowValues(row)) => after = before

EntriesFor(well, action) ==
    {i \in DOMAIN Appended : Appended[i].well = well /\ Appended[i].action = action}

UpdatesFor(well, field) ==
    {i \in EntriesFor(well, "updated") : Appended[i].field = field}

\* C16: a successful bulk reconciliation appends exactly one 'created' entry per sample
\* it created, exactly one 'deleted' entry per sample it deleted, exactly one 'updated'
\* entry per changed field of each sample it updated, and no entry for a sample it left
\* unchanged.
C16_BulkEntriesPerChange ==
    [][(/\ last'.op = "bulk_upload" /\ last'.status = "ok" /\ probe'.call = "upload")
       => LET b == probe'.box
              wells == {s.well : s \in InBox(samples, b) \cup InBox(samples', b)}
              columns == {BulkColumns[i] : i \in 1..Len(BulkColumns)}
          IN  /\ \A i \in DOMAIN Appended : Appended[i].well \in wells
              /\ \A w \in wells :
                    LET before == AtWell(samples, b, w)
                        after == AtWell(samples', b, w)
                    IN  /\ Cardinality(EntriesFor(w, "created"))
                              = IF before = {} THEN Cardinality(after) ELSE 0
                        /\ Cardinality(EntriesFor(w, "deleted"))
                              = IF after = {} THEN Cardinality(before) ELSE 0
                        /\ \A i \in EntriesFor(w, "created") :
                              \E s \in after : Appended[i].sample_id = s.id
                        /\ \A i \in EntriesFor(w, "deleted") :
                              \E s \in before : Appended[i].sample_id = s.id
                        /\ IF before = {} \/ after = {}
                           THEN EntriesFor(w, "updated") = {}
                           ELSE \A o \in before, s \in after : \A f \in columns :
                                   IF o[f] = s[f]
                                   THEN UpdatesFor(w, f) = {}
                                   ELSE /\ Cardinality(UpdatesFor(w, f)) = 1
                                        /\ \A i \in UpdatesFor(w, f) :
                                              /\ Appended[i].sample_id = s.id
                                              /\ Appended[i].old_value = o[f]
                                              /\ Appended[i].new_value = s[f]]_vars

\* C16 witness: an uploaded file has just changed two fields of one sample and the last
\* two entries of the history are the two 'updated' entries of that sample
C16_BulkUpdatedTwoFields ==
    /\ last.op = "bulk_upload" /\ last.status = "ok"
    /\ Len(sample_history) >= 3
    /\ LET n == Len(sample_history)
       IN  /\ sample_history[n].action = "updated"
           /\ sample_history[n - 1].action = "updated"
           /\ sample_history[n].sample_id = sample_history[n - 1].sample_id
           /\ sample_history[n].field # sample_history[n - 1].field

\* C17: the counts a bulk reconciliation returns are numbers of samples: 'added' the
\* samples created, 'deleted' the samples deleted, 'updated' the samples updated, each
\* updated sample counted once however many of its fields changed.
C17_CountsAreSamples ==
    [][(/\ last'.op = "bulk_upload" /\ last'.status = "ok" /\ probe'.call = "upload")
       => LET b == probe'.box
              wells == {s.well : s \in InBox(samples, b) \cup InBox(samples', b)}
              created == {w \in wells : AtWell(samples, b, w) = {} /\ AtWell(samples', b, w) # {}}
              deleted == {w \in wells : AtWell(samples, b, w) # {} /\ AtWell(samples', b, w) = {}}
              updated == {w \in wells : /\ AtWell(samples, b, w) # {}
                                        /\ AtWell(samples', b, w) # {}
                                        /\ AtWell(samples, b, w) # AtWell(samples', b, w)}
          IN  last'.counts = <<Cardinality(created), Cardinality(updated),
                               Cardinality(deleted)>>]_vars

\* C18: for every well of one uppercase letter and one or two digits and every box of
\* rows x columns with rows, columns in 1..20, the bounds check accepts the well exactly
\* when its row index (A = 0) is in [0, rows) and its column number is in [1, columns];
\* otherwise the creation fails with an error naming the offending axis and the largest
\* legal value.
C18_BoundsCheck ==
    [][(probe.call = "input" /\ probe'.call = "save_sample")
       => \A b \in boxes :
             LET row == LetterIndex(probe.well[1])
                 column == DigitsToInt(Tail(probe.well))
             IN  IF row \in 0..(b.rows - 1) /\ column \in 1..b.columns
                 THEN /\ last' = Report("create_sample", "ok", 1)
                      /\ \E s \in samples' : s.well = probe.well
                 ELSE /\ UNCHANGED <<samples, sample_history>>
                      /\ last'.op = "save_sample"
                      /\ \/ /\ row \notin 0..(b.rows - 1)
                            /\ last'.status = "row_outside"
                            /\ probe'.error.axis = "Row"
                            /\ probe'.error.max = <<UpperSeq[b.rows]>>
                         \/ /\ column \notin 1..b.columns
                            /\ last'.status = "column_outside"
                            /\ probe'.error.axis = "Column"
                            /\ DigitsToInt(probe'.error.max) = b.columns]_vars

\* C18 witness: in a box of 20 columns a well of column 21 has just been refused
C18_ColumnRefused ==
    /\ probe.call = "save_sample"
    /\ last.op = "save_sample" /\ last.status = "column_outside"
    /\ DigitsToInt(Tail(probe.well)) = MaxDim + 1
    /\ \E b \in boxes : b.columns = MaxDim
    /\ samples = {}

\* C19: coordinate round trip: for every row in 0..25 and col in 0..19 the label built
\* as row letter plus (col + 1) passes the well-format check and parses back to the
\* same row index and to column number col + 1.
C19_RoundTrip ==
    probe.call = "label"
    => /\ probe.format = "ok"
       /\ probe.parsed.row_index = probe.row
       /\ probe.parsed.col_number = probe.col + 1

\* C19 witness: the last cell of the grid, row 25 and col 19, has been labelled Z20
C19_LastCellLabelled ==
    /\ probe.call = "label"
    /\ probe.row = 25 /\ probe.col = 19
    /\ probe.well = <<"Z", "2", "0">>

\* the ids sample_history has recorded, those of deleted samples included
RecordedIds == {sample_history[i].sample_id : i \in DOMAIN sample_history}

\* C20: creating a sample with a non-empty name of at most 100 characters, an allowed
\* type and a well that is well-formed, in bounds and unoccupied in an existing box
\* succeeds: afterwards exactly one new live sample with a fresh id exists at that
\* location carrying the submitted fields, and exactly one 'created' audit entry for
\* that id has been appended.
C20_ValidCreateSucceeds ==
    [][\A b \in boxes, raw \in SampleFormInputs, who \in IdentityInputs :
         \A w \in AllCoords(b.rows, b.columns) :
            (/\ save_sample(b, w, NoSample, raw, who, TRUE, 0)
             /\ ~FailsValidation(b, SanitizedForm(raw), 0))
            => LET form == SanitizedForm(raw)
                   created == samples' \ samples
               IN  /\ samples \subseteq samples'
                   /\ Cardinality(created) = 1
                   /\ \A s \in created :
                         /\ last' = Report("create_sample", "ok", s.id)
                         /\ Location(s) = <<b.freezer_name, b.rack_id, b.id, form.well>>
                         /\ \A f \in DOMAIN form : s[f] = form[f]
                         /\ s.id \notin {o.id : o \in samples} \cup RecordedIds
                         /\ Len(Appended) = 1
                         /\ Appended[1].action = "created"
                         /\ Appended[1].sample_id = s.id]_vars

\* C21: rack ids are unique within a freezer, not globally: "Add Rack" with an id that a
\* rack of the selected freezer already has is refused as a duplicate and changes
\* nothing, and with an id that no rack of the selected freezer has (also when a rack of
\* another freezer has it) it succeeds and adds the rack to the selected freezer.
C21_RackIdPerFreezer ==
    [][\A f \in freezers, id \in HierRackInputs, d \in RackDimInputs :
          add_new_rack(f, id, d[1], d[2]) =>
             IF \E r \in racks : r.id = Strip(id) /\ r.freezer_name = f
             THEN /\ last'.status = "already_exists"
                  /\ <<freezers', racks', boxes', samples', sample_history'>>
                        = <<freezers, racks, boxes, samples, sample_history>>
             ELSE /\ last'.status = "ok"
                  /\ racks' = racks \cup {[id |-> Strip(id), freezer_name |-> f,
                                           rows |-> d[1], columns |-> d[2]]}
                  /\ racks' # racks]_vars

\* C22: "Add Freezer" with a name that exactly equals the name of an existing freezer is
\* refused as a duplicate and leaves the freezers, racks, boxes and samples unchanged.
C22_DuplicateFreezerRefused ==
    [][\A n \in freezers :
          add_new_freezer(n) =>
             /\ last'.status = "already_exists"
             /\ <<freezers', racks', boxes', samples'>> = <<freezers, racks, boxes, samples>>]_vars

\* C22 witness: a duplicate freezer name has been refused while the freezer held samples
C22_DuplicateFreezerSeen ==
    /\ last.op = "add_freezer" /\ last.status = "already_exists"
    /\ racks # {} /\ boxes # {} /\ samples # {}

\* C23: "Save Box" (create, or relocation of an existing box) aimed at a slot that a
\* different box occupies fails and changes nothing: the boxes, and with them both
\* boxes' slots, and every sample are as before, whatever list of free slots the form
\* had offered.
C23_OccupiedSlotSaveRefused ==
    [][\A r \in racks, b \in {NoBox} \cup boxes, other \in boxes, n \in BoxNameInputs,
          u \in BoxUserInputs, d \in HierBoxDimInputs :
          (other # b /\ other.rack_id = r.id /\ other.freezer_name = r.freezer_name
             /\ save_box(b, r, n, u, d[1], d[2], other.id)) =>
                /\ last'.status # "ok"
                /\ boxes' = boxes
                /\ samples' = samples]_vars

\* C23 witness: the relocation of a box that holds a sample to the slot of another box
\* has been refused
C23_RelocationRefused ==
    /\ last.op = "save_box" /\ last.status = "integrity_error"
    /\ \E b1 \in boxes, b2 \in boxes :
          /\ b1.rack_id = b2.rack_id /\ b1.id # b2.id
          /\ \E s \in samples : s.box_id = b1.id /\ s.box = b1.id

\* C24: an audit query returns exactly the stored entries that satisfy every supplied
\* filter (action in the given set, actor in the given set, timestamp within the date
\* range, freezer, rack and box equal to the given ones, sample name containing the given
\* text), an omitted filter restricting nothing, and lists them newest first.
C24_QueryReturnsExactlyTheMatches ==
    probe.call = "query" =>
       LET Contains(value, part) ==
               \E k \in 0..(Len(value) - Len(part)) :
                  \A j \in 1..Len(part) : value[k + j] = part[j]
           wanted ==
               {i \in 1..Len(sample_history) :
                  LET e == sample_history[i]
                  IN  /\ probe.filter_action # {} => e.action \in probe.filter_action
                      /\ probe.filter_user # {} => e.username \in probe.filter_user
                      /\ Len(probe.date_range) = 2 =>
                            (probe.date_range[1] <= e.timestamp
                               /\ e.timestamp <= probe.date_range[2])
                      /\ probe.filter_freezer # <<>> => e.freezer = probe.filter_freezer
                      /\ probe.filter_rack # <<>> => e.rack = probe.filter_rack
                      /\ probe.filter_box # <<>> => e.box = probe.filter_box
                      /\ probe.filter_sample # <<>> =>
                            Contains(e.sample_name, probe.filter_sample)}
       IN  /\ {probe.result[i].id : i \in 1..Len(probe.result)} = wanted
           /\ Len(probe.result) = Cardinality(wanted)
           /\ \A i \in 1..Len(probe.result) :
                 probe.result[i] = sample_history[probe.result[i].id]
           /\ \A i, j \in 1..Len(probe.result) :
                 i < j => probe.result[i].timestamp >= probe.result[j].timestamp

\* C25: every audit entry written by a request carries the identity of the session that
\* made the request: the logged-in user's id and name when the session holds one, the
\* sentinel (id 0, name "System") when it holds none; so after a logout no later entry
\* carries the identity of the user who logged out.
C25_EntriesCarrySessionIdentity ==
    [][\A i \in (Len(sample_history) + 1)..Len(sample_history') :
          /\ sample_history'[i].user_id =
                (IF probe.identity.present THEN probe.identity.user_id ELSE 0)
          /\ sample_history'[i].username =
                (IF probe.identity.present THEN probe.identity.username ELSE System)]_vars

\* C25 witness: an entry of a logged-in user is followed by an entry written after
\* the logout, attributed to the sentinel
C25_EntryAfterLogout ==
    /\ Len(sample_history) = 2
    /\ sample_history[1].user_id # 0
    /\ sample_history[2].user_id = 0 /\ sample_history[2].username = System
    /\ ~probe.identity.present

\* C26: a sample's date_added is the time of its creation and no later single-sample
\* update, bulk upload or box save (edit or relocation) changes it: a sample the step
\* creates (the step logs its creation) has the time of the step, and every other
\* sample was there before with the same date_added.
C26_DateAddedSetOnce ==
    [][\A t \in samples' :
          IF \E i \in DOMAIN Appended :
                Appended[i].action = "created" /\ Appended[i].sample_id = t.id
          THEN t.date_added = utcnow
          ELSE \E s \in samples : s.id = t.id /\ s.date_added = t.date_added]_vars

\* C26 witness: a sample created before the clock advanced has since been updated
C26_UpdatedLater ==
    /\ last.op \in {"update_sample", "bulk_upload"} /\ last.status = "ok"
    /\ Len(sample_history) >= 2
    /\ sample_history[Len(sample_history)].action = "updated"
    /\ \E s \in samples :
          /\ s.id = sample_history[Len(sample_history)].sample_id
          /\ s.date_added < utcnow

\* C27: in every reachable state the well of each live sample lies inside the current
\* dimensions of its box (row index < box rows, column number <= box columns), also
\* after the box has been saved with fewer rows or columns.  A sample's box is the box
\* that both its location columns and its foreign-key columns name.
C27_WellsInsideBox ==
    \A s \in samples, b \in boxes :
       (/\ <<s.freezer, s.rack, s.box>> = <<b.freezer_name, b.rack_id, b.id>>
        /\ <<s.freezer_name, s.rack_id, s.box_id>> = <<b.freezer_name, b.rack_id, b.id>>)
          => WellInBounds(s.well, b.rows, b.columns)

\* C28: in every reachable state the denormalised location columns of every live sample
\* agree with its foreign-key columns: box = box_id, rack = rack_id and
\* freezer = freezer_name, in particular after a box relocation has rewritten the
\* samples' box column.
C28_LocationEqualsForeignKey ==
    \A s \in samples :
       /\ s.box = s.box_id
       /\ s.rack = s.rack_id
       /\ s.freezer = s.freezer_name

\* C29: in the delete-confirmation flow a freezer, rack or box delete function runs only
\* when a delete is pending for exactly that item type and item id and the entered
\* admin password is correct, and its success clears the pending confirmation; nothing
\* is removed from the hierarchy in any other way; "Confirm Delete" with a wrong
\* password deletes nothing and keeps the confirmation pending; "Cancel" deletes nothing
\* and clears it.
C29_DeleteOnlyWhenConfirmed ==
    [][LET store == <<freezers, racks, boxes, samples, sample_history>>
           store_after == <<freezers', racks', boxes', samples', sample_history'>>
           confirm_clicked == last'.op \in HierarchyDeleteOps
           deleted == confirm_clicked /\ last'.status = "ok"
       IN  /\ deleted =>
                /\ probe.delete_confirmation
                /\ probe.password = admin_password
                /\ CASE last'.op = "delete_freezer" ->
                          /\ probe.delete_type = "freezer"
                          /\ freezers \ freezers' = {probe.delete_target}
                     [] last'.op = "delete_rack" ->
                          /\ probe.delete_type = "rack"
                          /\ freezers' = freezers
                          /\ {r.id : r \in racks \ racks'} = {probe.delete_target}
                     [] last'.op = "delete_box" ->
                          /\ probe.delete_type = "box"
                          /\ freezers' = freezers /\ racks' = racks
                          /\ {b.id : b \in boxes \ boxes'} = {probe.delete_target}
                /\ probe' = NoPending
           /\ ~deleted =>
                /\ freezers \subseteq freezers'
                /\ racks \subseteq racks'
                /\ Cardinality(boxes') >= Cardinality(boxes)
           /\ (confirm_clicked /\ probe.password # admin_password) =>
                /\ store_after = store
                /\ probe' = probe
           /\ last'.op = "cancel_delete" =>
                /\ store_after = store
                /\ probe' = NoPending]_vars

\* C29 witness: the pending delete of a box has been confirmed with the admin password
\* in a rack that holds another box
C29_BoxDeleteConfirmed ==
    /\ last.op = "delete_box" /\ last.status = "ok"
    /\ probe = NoPending
    /\ boxes # {}

\* C30: a bulk upload performed for the selected box creates, updates or deletes samples
\* only in that box: every sample the step adds, removes or changes has the selected
\* box's freezer, rack and box as its location, so rows naming another box are skipped
\* and the samples of every other box are as before; the audit entries written before
\* are as before and every entry the step appends is for the selected box.
C30_UploadTouchesSelectedBoxOnly ==
    [][last'.op = "bulk_upload" =>
          LET b == probe'.box
              Here(x) == <<x.freezer, x.rack, x.box>> = <<b.freezer_name, b.rack_id, b.id>>
          IN  /\ \A s \in (samples \ samples') \cup (samples' \ samples) : Here(s)
              /\ Len(sample_history') >= Len(sample_history)
              /\ SubSeq(sample_history', 1, Len(sample_history)) = sample_history
              /\ \A i \in (Len(sample_history) + 1)..Len(sample_history') :
                    Here(sample_history'[i])]_vars

\* C30 witness: a file with a row for another box has been uploaded and has changed the
\* selected box while the other box holds a sample
C30_MixedFileUploaded ==
    /\ last.op = "bulk_upload" /\ last.status = "ok"
    /\ last.counts # <<0, 0, 0>>
    /\ probe.mixed
    /\ \E s \in samples : s.box # probe.box.id /\ s.box_id # probe.box.id

====
